---- MODULE Spec2Model ----
(***************************************************************************)
(* Sableye: a journal question-answering agent.                            *)
(*                                                                         *)
(* The model follows src/src/agent.py (SableyeAgent) and src/src/tools.py  *)
(* (AgentTools).  One SableyeAgent instance is modelled; its methods are   *)
(* the actions.  The program is single-threaded, so every method call is   *)
(* one atomic step.  Calls into third-party libraries (the vector index,   *)
(* the agent loop, the file system) are inputs of the step, drawn from     *)
(* small sets: they may return any of a few values or raise.               *)
(*                                                                         *)
(* Python values: None for an object reference is the empty set and a set  *)
(* object is a singleton set holding its value; strings are strings; a     *)
(* list is a sequence; a dict is a record.                                 *)
(***************************************************************************)
EXTENDS Integers, Sequences, FiniteSets, TLC

VARIABLES
    attrs,          \* the attribute names defined on the SableyeAgent instance
    config,         \* self.config
    reader,         \* self.reader
    vectorstore,    \* self.vectorstore
    agent,          \* self.agent
    llm,            \* self.llm
    embeddings,     \* self.embeddings
    chat_history,   \* self.chat_history
    nobjects,       \* how many reader / vector store objects were created so far
    last,           \* what the last call did: its arguments, result and library calls
    cli             \* the command of cli.py that runs, and where it is

vars == <<attrs, config, reader, vectorstore, agent, llm, embeddings,
          chat_history, nobjects, last, cli>>

(***************************************************************************)
(* Bounds of the model.                                                    *)
(***************************************************************************)
\* Spec: chat is not called when chat_history would grow beyond this many entries
MaxHistory == 2
\* SpecConversation: the same, for the long conversations
MaxLongHistory == 12
\* load_notes is not called once this many reader / store objects exist
MaxObjects == 2
\* SpecCli: the chat loop takes no input that makes chat_history longer than this
MaxCliHistory == 2

(***************************************************************************)
(* Python helpers.                                                         *)
(***************************************************************************)
None == {}
Some(x) == {x}
IsSet(o) == o # {}
Get(o) == CHOOSE x \in o : TRUE

Min(a, b) == IF a < b THEN a ELSE b
Max(a, b) == IF a < b THEN b ELSE a

\* s[-n:] of a Python list
PyLast(s, n) == SubSeq(s, Max(1, Len(s) - n + 1), Len(s))

\* truth value of an Optional[int]: None and 0 are false
Truthy(o) == o # None /\ o # Some(0)
\* a or b
PyOr(a, b) == IF Truthy(a) THEN a ELSE b

(***************************************************************************)
(* Inputs.                                                                 *)
(***************************************************************************)
ModelTypes == {"openai", "ollama", "llama"}
\* the days argument of load_notes (Optional[int])
DaysArgs == {None, Some(0), Some(1), Some(90)}
\* config.vault.load_days (Optional[int], 90 unless the YAML file sets it)
ConfigLoadDays == {None, Some(90)}

\* The files a vault may hold.  path is the file's path below the vault
\* directory, content its text, modified_time and created_time its st_mtime and
\* st_ctime as datetime.fromtimestamp(..).isoformat() prints them, age the number
\* of days between st_mtime and the moment the file is read, and readable whether
\* open(), read() and stat() succeed on it.
Notes == {
    [path |-> "today.md", modified_time |-> "2024-03-01T09:30:00",
     created_time |-> "2024-03-01T09:30:00", age |-> 0, readable |-> TRUE,
     content |-> "I feel happy today."],
    [path |-> "old.md", modified_time |-> "2024-01-15T08:00:00",
     created_time |-> "2024-01-15T08:00:00", age |-> 45, readable |-> TRUE,
     content |-> "My goal is to learn Rust."],
    [path |-> "empty.md", modified_time |-> "2024-03-01T09:00:00",
     created_time |-> "2024-03-01T09:00:00", age |-> 0, readable |-> TRUE,
     content |-> "  "] }

Note(path) == CHOOSE n \in Notes : n.path = path

\* the contents of the vault when load_notes reads it
Vaults ==
    { {},
      {Note("today.md")},
      {Note("old.md"), Note("empty.md")},
      {Note("today.md"), Note("old.md"), Note("empty.md")} }

\* Further files: a note in a subdirectory, a note that cannot be read (open
\* raises PermissionError, or the bytes are not UTF-8) and a file that is no note
MoreFiles == {
    [path |-> "2024/nested.md", modified_time |-> "2024-02-27T21:15:00",
     created_time |-> "2024-02-27T21:15:00", age |-> 3, readable |-> TRUE,
     content |-> "Nested content."],
    [path |-> "locked.md", modified_time |-> "2024-03-01T07:45:00",
     created_time |-> "2024-03-01T07:45:00", age |-> 0, readable |-> FALSE,
     content |-> "Private thoughts."],
    [path |-> "notes.txt", modified_time |-> "2024-03-01T08:10:00",
     created_time |-> "2024-03-01T08:10:00", age |-> 0, readable |-> TRUE,
     content |-> "Not markdown."] }

File(path) == CHOOSE f \in Notes \cup MoreFiles : f.path = path

\* the contents of the vault when the reader reads it
ReaderVaults ==
    { {},
      {File("locked.md")},
      {File("2024/nested.md"), File("notes.txt")},
      {File("today.md"), File("old.md"), File("empty.md")},
      {File("today.md"), File("locked.md")},
      Notes \cup MoreFiles }

\* A journal of twelve notes, more than get_recent_entries shows: the first is
\* longer than 500 characters (504), the second has exactly 500, and two were
\* modified in the same second.  The ages are those at 2024-03-01T12:00:00.
Journal == {
    [path |-> "j01.md", modified_time |-> "2024-03-01T08:00:00",
     created_time |-> "2024-03-01T08:00:00", age |-> 0, readable |-> TRUE,
     content |->
        "Woke early and wrote for an hour. Woke early and wrote for a"
        \o "n hour. Woke early and wrote for an hour. Woke early and wro"
        \o "te for an hour. Woke early and wrote for an hour. Woke early"
        \o " and wrote for an hour. Woke early and wrote for an hour. Wo"
        \o "ke early and wrote for an hour. Woke early and wrote for an "
        \o "hour. Woke early and wrote for an hour. Woke early and wrote"
        \o " for an hour. Woke early and wrote for an hour. Woke early a"
        \o "nd wrote for an hour. Woke early and wrote for an hour. Woke"
        \o " early and wrote for an "],
    [path |-> "j02.md", modified_time |-> "2024-03-01T07:59:59.250000",
     created_time |-> "2024-03-01T07:59:59.250000", age |-> 0, readable |-> TRUE,
     content |->
        "Slept badly, skipped the run. Slept badly, skipped the run. "
        \o "Slept badly, skipped the run. Slept badly, skipped the run. "
        \o "Slept badly, skipped the run. Slept badly, skipped the run. "
        \o "Slept badly, skipped the run. Slept badly, skipped the run. "
        \o "Slept badly, skipped the run. Slept badly, skipped the run. "
        \o "Slept badly, skipped the run. Slept badly, skipped the run. "
        \o "Slept badly, skipped the run. Slept badly, skipped the run. "
        \o "Slept badly, skipped the run. Slept badly, skipped the run. "
        \o "Slept badly, skipped"],
    [path |-> "j03.md", modified_time |-> "2024-02-29T22:10:00",
     created_time |-> "2024-02-29T22:10:00", age |-> 0, readable |-> TRUE,
     content |->
        "Entry of j03."],
    [path |-> "j04.md", modified_time |-> "2024-02-29T06:05:30",
     created_time |-> "2024-02-29T06:05:30", age |-> 1, readable |-> TRUE,
     content |->
        "Entry of j04."],
    [path |-> "j05.md", modified_time |-> "2024-02-28T20:00:00",
     created_time |-> "2024-02-28T20:00:00", age |-> 1, readable |-> TRUE,
     content |->
        "Entry of j05."],
    [path |-> "j06.md", modified_time |-> "2024-02-28T09:45:10",
     created_time |-> "2024-02-28T09:45:10", age |-> 2, readable |-> TRUE,
     content |->
        "Entry of j06."],
    [path |-> "j07.md", modified_time |-> "2024-02-27T19:30:00",
     created_time |-> "2024-02-27T19:30:00", age |-> 2, readable |-> TRUE,
     content |->
        "Entry of j07."],
    [path |-> "j08.md", modified_time |-> "2024-02-27T10:00:00",
     created_time |-> "2024-02-27T10:00:00", age |-> 3, readable |-> TRUE,
     content |->
        "Entry of j08."],
    [path |-> "j09.md", modified_time |-> "2024-02-25T18:20:00",
     created_time |-> "2024-02-25T18:20:00", age |-> 4, readable |-> TRUE,
     content |->
        "Entry of j09."],
    [path |-> "j10.md", modified_time |-> "2024-02-24T23:00:00",
     created_time |-> "2024-02-24T23:00:00", age |-> 5, readable |-> TRUE,
     content |->
        "Entry of j10."],
    [path |-> "2023/j11.md", modified_time |-> "2024-02-24T23:00:00",
     created_time |-> "2024-02-24T23:00:00", age |-> 5, readable |-> TRUE,
     content |->
        "Entry of j11."],
    [path |-> "j12.md", modified_time |-> "2024-02-21T10:15:00",
     created_time |-> "2024-02-21T10:15:00", age |-> 9, readable |-> TRUE,
     content |->
        "Entry of j12."] }

\* the days argument of a direct read_recent_notes call
ReaderDays == {-1, 0, 3, 4, 45, 90}

\* The input of the get_recent_entries tool: the agent loop passes what the
\* language model gave as the tool's argument, a string unless the model gave
\* something else (null is passed on as None).
DaysInputs ==
    {[cls |-> "str", value |-> v] :
        v \in {"7", "4", " 90 ", "-1", "+3", "0", "1_0", "invalid", "7.5", "", "3 days"}}
    \cup {[cls |-> "NoneType", value |-> "None"]}

\* What reader.read_recent_notes may do in a tool call: return, or raise
ReadOutcomes == {[raises |-> FALSE, text |-> ""], [raises |-> TRUE, text |-> "Read error"]}

Messages == {"Hello"}
ExceptionTexts == {"Chat error"}
ReplyTexts == {"Test response"}


\* What agent.invoke may do: return a response or raise.  A response is a dict;
\* the agent loop of the library returns {"messages": [..., AIMessage]}.
Responses ==
    {[messages |-> <<[cls |-> "AIMessage", content |-> c]>>] : c \in ReplyTexts}
    \cup {[messages |-> <<[cls |-> "dict", content |-> c]>>] : c \in ReplyTexts}
    \cup {[messages |-> <<[cls |-> "str", value |-> c]>>] : c \in ReplyTexts}
    \cup {[output |-> c] : c \in ReplyTexts}
    \cup {[messages |-> <<>>]}

InvokeOutcomes ==
    {[raises |-> FALSE, response |-> r] : r \in Responses}
    \cup {[raises |-> TRUE, text |-> e] : e \in ExceptionTexts}

(***************************************************************************)
(* What a call is observed to do.  Every action sets `last` to one of      *)
(* these records.                                                          *)
(***************************************************************************)
Call(op) ==
    [op |-> op,
     message |-> "",        \* the string argument of the call
     cls |-> "str",         \* the class of that argument
     files |-> {},          \* reader calls: the files of the vault when it was read
     days |-> None,         \* the days argument of load_notes
     raised |-> "",         \* the exception that left the call, "" when it returned
     ret |-> "",            \* the string the call returned
     pieces |-> <<>>,       \* get_memory_summary, get_recent_entries: the returned
                            \* string, piece by piece
     reads |-> <<>>,        \* load_notes, tools: the calls of the reader's read methods
     documents |-> {},      \* load_notes and the reader: the documents selected
     builds |-> 0,          \* load_notes: calls of FAISS.from_documents
     dropped |-> 0,         \* clear_memory: the entries chat_history held
     invokes |-> <<>>,      \* chat: the arguments of each agent.invoke call
     outcome |-> None,      \* chat, tools: what agent.invoke, the store or the reader did
     searches |-> <<>>,     \* tools: the arguments of each similarity_search call
     prompt_files |-> <<>>, \* skills: the prompt files looked for
     tools |-> <<>>,        \* initialize: the tools given to create_agent
     env |-> <<>>,          \* Config: the environment it was constructed in
     yaml |-> <<>>,         \* Config: the data of the YAML file it loaded
     existing |-> {}]       \* validate: the directories that exist

(***************************************************************************)
(* src/src/reader.py                                                       *)
(***************************************************************************)
Whitespace == {" ", "\n", "\t", "\r"}

\* not content.strip()
IsBlank(content) == \A i \in 1..Len(content) : SubSeq(content, i, i) \in Whitespace

\* the index of the last "/" of a path, 0 when it has none
LastSlash(path) ==
    LET slashes == {i \in 1..Len(path) : SubSeq(path, i, i) = "/"} IN
    IF slashes = {} THEN 0 ELSE CHOOSE i \in slashes : \A j \in slashes : j <= i

\* Path.name: the last component of a path
PathName(path) == SubSeq(path, LastSlash(path) + 1, Len(path))

\* whether a file name matches the pattern "*.md"
MatchesMd(name) == Len(name) >= 3 /\ SubSeq(name, Len(name) - 2, Len(name)) = ".md"

\* self.vault_path.rglob("*.md"): the matching files at any depth below the vault
rglob_md(files) == {f \in files : MatchesMd(PathName(f.path))}

\* Document(page_content=content, metadata=metadata) of a file.  age is not a key
\* of the document: it is the value of modified_time, as days before now.
Document(f) ==
    [page_content |-> f.content,
     metadata |-> [source |-> f.path,
                   file_name |-> PathName(f.path),
                   modified_time |-> f.modified_time,
                   created_time |-> f.created_time],
     age |-> f.age]

\* ObsidianReader.read_all_notes, the try block: open, read and stat succeed
read_succeeds(f) == f.readable

\* read_all_notes without the skip of empty files
skip_empty_never(content) == FALSE

\* ObsidianReader.read_all_notes, "if not content.strip(): continue"
skip_empty(content) == IsBlank(content)

\* ObsidianReader.read_all_notes over the files of the vault: a file whose
\* reading raises is logged and left out, a blank one is skipped
read_all_notes(files) ==
    {Document(f) : f \in {g \in rglob_md(files) :
                              read_succeeds(g) /\ ~skip_empty(g.content)}}

\* read_recent_notes keeping the notes modified at the cutoff as well
is_recent_inclusive(doc, days) == doc.age <= days

\* ObsidianReader.read_recent_notes, the filter:
\* datetime.fromisoformat(modified_time) > datetime.now() - timedelta(days=days)
is_recent(doc, days) == doc.age < days

\* ObsidianReader.read_recent_notes
read_recent_notes(files, days) == {d \in read_all_notes(files) : is_recent(d, days)}

(***************************************************************************)
(* src/src/tools.py                                                        *)
(***************************************************************************)
\* AgentTools.__init__
AgentTools(vs, rd, search_limit) ==
    [vectorstore |-> vs, reader |-> rd, search_limit |-> search_limit]

search_notes_tool ==
    [name |-> "search_notes", func |-> "_search_notes",
     description |->
        "Search through journal entries and notes for specific information. "
        \o "Input should be a search query about goals, activities, thoughts, "
        \o "emotions, or any topic you want to find in the notes."]

get_recent_entries_tool ==
    [name |-> "get_recent_entries", func |-> "_get_recent_entries",
     description |->
        "Get recent journal entries from the last N days. "
        \o "Input should be a number representing days (e.g., '7' for last 7 days, "
        \o "'30' for last 30 days)."]

analyze_mood_patterns_tool ==
    [name |-> "analyze_mood_patterns", func |-> "_analyze_mood_patterns",
     description |->
        "Analyze mood and emotional patterns from journal entries. "
        \o "Use this to understand mental state, emotional well-being, "
        \o "and identify trends in emotions over time."]

find_goals_tool ==
    [name |-> "find_goals", func |-> "_find_goals",
     description |->
        "Search for goals, objectives, and aspirations mentioned in notes. "
        \o "Use this to understand what the person is working towards or wants to achieve."]

\* create_tools with the last tool left out
create_tools_short ==
    <<search_notes_tool, get_recent_entries_tool, analyze_mood_patterns_tool>>

\* AgentTools.create_tools: name, the method func is bound to, description
create_tools ==
    <<search_notes_tool, get_recent_entries_tool, analyze_mood_patterns_tool,
      find_goals_tool>>

\* The skills of src/skills/: the name of the Tool that each module's
\* create_tool(llm, vectorstore, reader) returns
Skills ==
    {"ask_past_self", "energy_tracker", "extract_goals", "extract_learnings",
     "gaming_insights", "track_progress"}

(***************************************************************************)
(* src/src/agent.py                                                        *)
(***************************************************************************)
InstanceAttrs ==
    {"config", "reader", "vectorstore", "agent", "llm", "embeddings", "chat_history"}

\* SableyeAgent._initialize_models: the models created, or the exception raised
_initialize_models(cfg) ==
    IF cfg.model_type = "openai"
    THEN [raised |-> "", llm |-> Some("ChatOpenAI"), embeddings |-> Some("OpenAIEmbeddings")]
    ELSE IF cfg.model_type = "ollama"
    THEN [raised |-> "", llm |-> Some("ChatOllama"), embeddings |-> Some("OllamaEmbeddings")]
    ELSE [raised |-> "ValueError: Unsupported model type: " \o cfg.model_type,
          llm |-> None, embeddings |-> None]

\* SableyeAgent.__init__
__init__ ==
    /\ attrs = {}
    /\ LET m == _initialize_models(config) IN
       IF m.raised = ""
       THEN /\ attrs' = InstanceAttrs
            /\ llm' = m.llm
            /\ embeddings' = m.embeddings
            /\ last' = Call("__init__")
       ELSE /\ UNCHANGED <<attrs, llm, embeddings>>
            /\ last' = [Call("__init__") EXCEPT !.raised = m.raised]
    /\ reader' = None
    /\ vectorstore' = None
    /\ agent' = None
    /\ chat_history' = <<>>
    /\ UNCHANGED <<config, nobjects>>

\* load_notes without the check for an empty selection
no_documents_unchecked(documents) == FALSE

\* SableyeAgent.load_notes, "if not documents"
no_documents(documents) == documents = {}

\* SableyeAgent.load_notes(days).  path_exists: whether config.vault.path exists;
\* files: the markdown files of the vault; build_ok: whether FAISS.from_documents
\* returns (it embeds every chunk through the embeddings service).
load_notes(days, path_exists, files, build_ok) ==
    /\ attrs # {}
    /\ LET load_days == PyOr(days, config.load_days)
           documents == IF Truthy(load_days)
                        THEN read_recent_notes(files, Get(load_days))
                        ELSE read_all_notes(files)
           reads == IF Truthy(load_days)
                    THEN <<[fn |-> "read_recent_notes", days |-> load_days]>>
                    ELSE <<[fn |-> "read_all_notes", days |-> None]>>
           c == [Call("load_notes") EXCEPT !.days = days]
           r == [c EXCEPT !.reads = reads, !.files = files, !.documents = documents]
       IN
       IF ~path_exists
       THEN /\ last' = [c EXCEPT !.raised = "ValueError: Vault path does not exist: " \o config.vault_path]
            /\ UNCHANGED <<reader, vectorstore, nobjects>>
       ELSE /\ reader' = Some([id |-> nobjects + 1])
            /\ nobjects' = nobjects + 1
            /\ IF no_documents(documents)
               THEN /\ last' = [r EXCEPT !.raised = "ValueError: No documents found in vault"]
                    /\ UNCHANGED vectorstore
               ELSE IF ~build_ok
               THEN /\ last' = [r EXCEPT !.builds = 1,
                                         !.raised = "Exception: embedding failed"]
                    /\ UNCHANGED vectorstore
               ELSE /\ last' = [r EXCEPT !.builds = 1]
                    /\ vectorstore' = Some([id |-> nobjects + 1, docs |-> documents])
    /\ UNCHANGED <<attrs, config, agent, llm, embeddings, chat_history>>

\* initialize without the check that notes were loaded
notes_missing_unchecked(vs) == FALSE

\* SableyeAgent.initialize, "if not self.vectorstore"
notes_missing(vs) == ~IsSet(vs)

\* SableyeAgent.initialize
initialize ==
    /\ attrs # {}
    /\ IF notes_missing(vectorstore)
       THEN /\ last' = [Call("initialize") EXCEPT
                          !.raised = "ValueError: Please load notes first using load_notes()"]
            /\ UNCHANGED agent
       ELSE LET agent_tools == AgentTools(vectorstore, reader, config.search_results_limit)
                tools == create_tools
            IN /\ agent' = Some([model |-> llm, tools |-> tools, agent_tools |-> agent_tools])
               /\ last' = [Call("initialize") EXCEPT !.tools = tools]
    /\ UNCHANGED <<attrs, config, reader, vectorstore, llm, embeddings, chat_history, nobjects>>


\* hasattr(last_message, 'content'): message objects of the library carry it
HasContentAttr(m) == m.cls \notin {"dict", "str"} /\ "content" \in DOMAIN m

\* isinstance(last_message, dict) and 'content' in last_message
IsDictWithContent(m) == m.cls = "dict" /\ "content" \in DOMAIN m

\* str(x) of the responses and messages that have no content
PyStr(x) ==
    IF "cls" \in DOMAIN x THEN x.value
    ELSE IF "output" \in DOMAIN x THEN "{'output': '" \o x.output \o "'}"
    ELSE "{'messages': []}"

\* SableyeAgent.chat, the extraction of the reply from the response
response_content(response) ==
    IF "messages" \in DOMAIN response /\ response.messages # <<>>
    THEN LET last_message == response.messages[Len(response.messages)] IN
         IF HasContentAttr(last_message) THEN last_message.content
         ELSE IF IsDictWithContent(last_message) THEN last_message.content
         ELSE PyStr(last_message)
    ELSE PyStr(response)

\* the whole history handed to agent.invoke
invoke_messages_whole(history) == history

\* SableyeAgent.chat, the messages handed to agent.invoke
invoke_messages(history) == PyLast(history, 10)

\* the assistant's entry stored without its content
assistant_entry_blank(content) == [role |-> "assistant", content |-> ""]

\* SableyeAgent.chat, the entry appended for the response
assistant_entry(content) == [role |-> "assistant", content |-> content]

\* the except branch returning the bare exception text
chat_error_bare(e) == e

\* SableyeAgent.chat, the except branch: f"I encountered an error: {str(e)}"
chat_error(e) == "I encountered an error: " \o e

\* SableyeAgent.chat(message).  out: what agent.invoke does.
chat(message, out) ==
    /\ attrs # {}
    /\ LET c == [Call("chat") EXCEPT !.message = message] IN
       IF ~IsSet(agent)
       THEN /\ last' = [c EXCEPT
                          !.raised = "ValueError: Agent not initialized. Call initialize() first."]
            /\ UNCHANGED chat_history
       ELSE LET history == Append(chat_history, [role |-> "user", content |-> message])
                messages == invoke_messages(history)
                d == [c EXCEPT !.invokes = <<[messages |-> messages]>>, !.outcome = Some(out)]
            IN IF out.raises
               THEN /\ chat_history' = history
                    /\ last' = [d EXCEPT !.ret = chat_error(out.text)]
               ELSE LET content == response_content(out.response) IN
                    /\ chat_history' = Append(history, assistant_entry(content))
                    /\ last' = [d EXCEPT !.ret = content]
    /\ UNCHANGED <<attrs, config, reader, vectorstore, agent, llm, embeddings, nobjects>>

\* clear_memory that also drops the agent
clear_memory_drops_agent ==
    /\ attrs # {}
    /\ chat_history' = <<>>
    /\ agent' = None
    /\ last' = [Call("clear_memory") EXCEPT !.dropped = Len(chat_history)]
    /\ UNCHANGED <<attrs, config, reader, vectorstore, llm, embeddings, nobjects>>

\* SableyeAgent.clear_memory
clear_memory ==
    /\ attrs # {}
    /\ chat_history' = <<>>
    /\ last' = [Call("clear_memory") EXCEPT !.dropped = Len(chat_history)]
    /\ UNCHANGED <<attrs, config, reader, vectorstore, agent, llm, embeddings, nobjects>>

\* msg["content"][:100] + "..." if len(msg["content"]) > 100 else msg["content"]
summary_content(content) ==
    IF Len(content) > 100 THEN SubSeq(content, 1, 100) \o "..." ELSE content

\* one line of the summary
summary_line(msg) ==
    "- " \o (IF msg.role = "user" THEN "User" ELSE "Agent") \o ": "
         \o summary_content(msg.content) \o "\n"

\* a summary that lists every message
memory_summary_unbounded(history) ==
    IF history = <<>>
    THEN <<"No conversation history">>
    ELSE <<"Conversation history (" \o ToString(Len(history)) \o " messages):\n">>
         \o [i \in 1..Len(history) |-> summary_line(history[i])]

\* SableyeAgent.get_memory_summary: the returned string is the concatenation of
\* the pieces, the header first and then one piece per listed message
memory_summary(history) ==
    IF history = <<>>
    THEN <<"No conversation history">>
    ELSE LET shown == PyLast(history, 10) IN
         <<"Conversation history (" \o ToString(Len(history)) \o " messages):\n">>
         \o [i \in 1..Len(shown) |-> summary_line(shown[i])]

get_memory_summary ==
    /\ attrs # {}
    /\ last' = [Call("get_memory_summary") EXCEPT !.pieces = memory_summary(chat_history)]
    /\ UNCHANGED <<attrs, config, reader, vectorstore, agent, llm, embeddings,
                   chat_history, nobjects>>


(***************************************************************************)
(* src/src/tools.py, the tool functions.  The agent loop calls them while  *)
(* agent.invoke runs; each call is a step of its own here.  self is the    *)
(* AgentTools object that initialize() built the agent's tools from.       *)
(***************************************************************************)
RECURSIVE Join(_, _)
\* sep.join(strings)
Join(strings, sep) ==
    IF strings = <<>> THEN ""
    ELSE IF Len(strings) = 1 THEN strings[1]
    ELSE strings[1] \o sep \o Join(Tail(strings), sep)

\* s[:n] of a Python string
PyHead(s, n) == SubSeq(s, 1, Min(n, Len(s)))

\* The lists of n distinct documents of a store
DocLists(docs, n) ==
    {l \in [1..n -> docs] : \A i, j \in 1..n : i # j => l[i] # l[j]}

\* What vectorstore.similarity_search(query, k) may do: return at most k of the
\* store's chunks (a note shorter than chunk_size is one chunk) or raise.
\* the k nearest ones, or none when nothing is near
SearchOutcomes(store, k) ==
    {[raises |-> FALSE, docs |-> l] : l \in DocLists(store.docs, Min(k, Cardinality(store.docs)))}
    \cup {[raises |-> FALSE, docs |-> <<>>]}
    \cup {[raises |-> TRUE, text |-> "Search error"]}

AllSearchOutcomes ==
    UNION {SearchOutcomes([docs |-> d], 10) : d \in SUBSET read_all_notes(Notes)}

\* the same, of the stores that load_notes builds with the further files
AllToolSearchOutcomes ==
    UNION {SearchOutcomes([docs |-> read_all_notes(files)], 10) :
              files \in {Notes, Notes \cup MoreFiles}}

mood_keywords ==
    <<"mood", "emotion", "feeling", "mental state", "happiness", "sadness",
      "anxiety", "stress", "joy", "depression", "calm", "peaceful">>

goal_keywords ==
    <<"goal", "objective", "want to", "plan to", "aspire", "achieve", "target",
      "aim", "working on", "working towards">>

\* the entry of a document in the output of _search_notes
search_entry(i, doc) ==
    "--- Entry " \o ToString(i) \o ": " \o doc.metadata.file_name \o " (Modified: "
        \o PyHead(doc.metadata.modified_time, 10) \o ") ---\n" \o doc.page_content \o "\n"

\* the entry of a document in the output of _analyze_mood_patterns and _find_goals
plain_entry(doc) ==
    "--- " \o doc.metadata.file_name \o " ---\n" \o doc.page_content \o "\n"

\* _search_notes searching with the default limit instead of the configured one
search_notes_request_default(self, query) == [query |-> query, k |-> 5]

\* AgentTools._search_notes, the arguments of its similarity_search call
search_notes_request(self, query) == [query |-> query, k |-> self.search_limit]

\* AgentTools._analyze_mood_patterns, the arguments of its similarity_search call
mood_request(self, query) == [query |-> Join(mood_keywords, " "), k |-> 10]

\* AgentTools._find_goals, the arguments of its similarity_search call
goals_request(self, query) == [query |-> Join(goal_keywords, " "), k |-> 8]

\* AgentTools._search_notes(query)
_search_notes(query, out) ==
    /\ IsSet(agent)
    /\ LET self == Get(agent).agent_tools
           c == [Call("_search_notes") EXCEPT
                   !.message = query,
                   !.outcome = Some(out),
                   !.searches = <<search_notes_request(self, query)>>]
       IN /\ out \in SearchOutcomes(Get(self.vectorstore), self.search_limit)
          /\ last' = IF out.raises
                     THEN [c EXCEPT !.ret = "Error searching notes: " \o out.text]
                     ELSE IF out.docs = <<>>
                     THEN [c EXCEPT !.ret = "No relevant entries found for this query."]
                     ELSE [c EXCEPT !.ret =
                             Join([i \in 1..Len(out.docs) |-> search_entry(i, out.docs[i])],
                                  "\n")]
    /\ UNCHANGED <<attrs, config, reader, vectorstore, agent, llm, embeddings,
                   chat_history, nobjects>>

\* AgentTools._analyze_mood_patterns(query)
_analyze_mood_patterns(query, out) ==
    /\ IsSet(agent)
    /\ LET self == Get(agent).agent_tools
           c == [Call("_analyze_mood_patterns") EXCEPT
                   !.message = query,
                   !.outcome = Some(out),
                   !.searches = <<mood_request(self, query)>>]
       IN /\ out \in SearchOutcomes(Get(self.vectorstore), 10)
          /\ last' = IF out.raises
                     THEN [c EXCEPT !.ret = "Error analyzing mood patterns: " \o out.text]
                     ELSE IF out.docs = <<>>
                     THEN [c EXCEPT !.ret = "No mood-related entries found."]
                     ELSE [c EXCEPT !.ret =
                             "Mood-related entries:\n\n"
                             \o Join([i \in 1..Len(out.docs) |-> plain_entry(out.docs[i])],
                                     "\n")]
    /\ UNCHANGED <<attrs, config, reader, vectorstore, agent, llm, embeddings,
                   chat_history, nobjects>>

\* AgentTools._find_goals(query)
_find_goals(query, out) ==
    /\ IsSet(agent)
    /\ LET self == Get(agent).agent_tools
           c == [Call("_find_goals") EXCEPT
                   !.message = query,
                   !.outcome = Some(out),
                   !.searches = <<goals_request(self, query)>>]
       IN /\ out \in SearchOutcomes(Get(self.vectorstore), 8)
          /\ last' = IF out.raises
                     THEN [c EXCEPT !.ret = "Error finding goals: " \o out.text]
                     ELSE IF out.docs = <<>>
                     THEN [c EXCEPT !.ret = "No goals found in the notes."]
                     ELSE [c EXCEPT !.ret =
                             "Goal-related entries:\n\n"
                             \o Join([i \in 1..Len(out.docs) |-> plain_entry(out.docs[i])],
                                     "\n")]
    /\ UNCHANGED <<attrs, config, reader, vectorstore, agent, llm, embeddings,
                   chat_history, nobjects>>

(***************************************************************************)
(* src/src/tools.py, get_recent_entries.  int(days) and the sort by the     *)
(* modified_time string are computed as Python computes them.              *)
(***************************************************************************)
Digits == <<"0", "1", "2", "3", "4", "5", "6", "7", "8", "9">>

IsDigit(c) == \E i \in 1..10 : Digits[i] = c

DigitValue(c) == (CHOOSE i \in 1..10 : Digits[i] = c) - 1

\* strip of a string that was evaluated (the callers' arguments are evaluated
\* once, before the call, as Python does)
PyStripOf(s) ==
    LET kept == {i \in 1..Len(s) : SubSeq(s, i, i) \notin Whitespace} IN
    IF kept = {} THEN ""
    ELSE SubSeq(s, CHOOSE i \in kept : \A j \in kept : i <= j,
                   CHOOSE i \in kept : \A j \in kept : j <= i)

\* str.strip()
PyStrip(s) == CHOOSE r \in {PyStripOf(v) : v \in {s}} : TRUE

\* whether a string is a decimal literal that int() accepts after the sign:
\* digits, with single underscores between them
IsDecimal(body) ==
    /\ body # ""
    /\ IsDigit(SubSeq(body, 1, 1))
    /\ IsDigit(SubSeq(body, Len(body), Len(body)))
    /\ \A i \in 1..Len(body) :
          \/ IsDigit(SubSeq(body, i, i))
          \/ SubSeq(body, i, i) = "_" /\ IsDigit(SubSeq(body, i + 1, i + 1))

RECURSIVE DecimalValue(_, _)
\* the value of a decimal literal, read from the left; acc is the value so far
DecimalValue(body, acc) ==
    IF body = "" THEN acc
    ELSE LET c == SubSeq(body, 1, 1)
             rest == SubSeq(body, 2, Len(body))
         IN IF c = "_" THEN DecimalValue(rest, acc)
            ELSE DecimalValue(rest, 10 * acc + DigitValue(c))

\* int(s) of a string: the value, or ValueError
PyInt(s) ==
    LET t == PyStrip(s)
        signed == t # "" /\ SubSeq(t, 1, 1) \in {"+", "-"}
        body == IF signed THEN SubSeq(t, 2, Len(t)) ELSE t
    IN IF IsDecimal(body)
       THEN [ok |-> TRUE,
             value |-> IF signed /\ SubSeq(t, 1, 1) = "-"
                       THEN 0 - DecimalValue(body, 0) ELSE DecimalValue(body, 0)]
       ELSE [ok |-> FALSE, value |-> 0]

\* str(n) of an integer
PyStrInt(n) == IF n < 0 THEN "-" \o ToString(0 - n) ELSE ToString(n)

\* get_recent_entries falling back to 30 days
n_days_default_30(days) == LET p == PyInt(days) IN IF p.ok THEN p.value ELSE 30

\* AgentTools._get_recent_entries: try n_days = int(days), except ValueError 7
n_days_of(days) == LET p == PyInt(days) IN IF p.ok THEN p.value ELSE 7

\* the characters of an isoformat() string, in the order of their code points
IsoChars == <<"-", ".", "0", "1", "2", "3", "4", "5", "6", "7", "8", "9", ":", "T">>

CharRank(c) == CHOOSE i \in 1..Len(IsoChars) : IsoChars[i] = c

RECURSIVE StrLess(_, _)
\* a < b of two Python strings
StrLess(a, b) ==
    IF b = "" THEN FALSE
    ELSE IF a = "" THEN TRUE
    ELSE LET x == CharRank(SubSeq(a, 1, 1))
             y == CharRank(SubSeq(b, 1, 1))
         IN IF x # y THEN x < y
            ELSE StrLess(SubSeq(a, 2, Len(a)), SubSeq(b, 2, Len(b)))

RECURSIVE sort_by_modified_time(_)
\* recent_docs.sort(key=modified_time, reverse=True): latest first.  The order
\* among documents of equal modified_time is the order rglob listed them in.
sort_by_modified_time(docs) ==
    IF docs = {} THEN <<>>
    ELSE LET d == CHOOSE x \in docs :
                    \A y \in docs :
                        ~StrLess(x.metadata.modified_time, y.metadata.modified_time)
         IN <<d>> \o sort_by_modified_time(docs \ {d})

\* get_recent_entries showing every recent document
most_recent_unlimited(sorted) == sorted

\* AgentTools._get_recent_entries, recent_docs[:10]
most_recent(sorted) == SubSeq(sorted, 1, Min(10, Len(sorted)))

\* the entry of a document in the output of _get_recent_entries
recent_entry(doc) ==
    "--- " \o doc.metadata.file_name \o " (Modified: "
        \o PyHead(doc.metadata.modified_time, 10) \o ") ---\n"
        \o PyHead(doc.page_content, 500)
        \o (IF Len(doc.page_content) > 500 THEN "..." ELSE "") \o "\n"

\* AgentTools._get_recent_entries(days).  files: the vault when the reader reads
\* it; read: whether reader.read_recent_notes returns or raises.
_get_recent_entries(days, files, read) ==
    /\ IsSet(agent)
    /\ LET self == Get(agent).agent_tools
           c == [Call("_get_recent_entries") EXCEPT
                   !.message = days.value, !.cls = days.cls, !.outcome = Some(read)]
       IN IF days.cls # "str"
          THEN last' = [c EXCEPT !.raised =
                          "TypeError: int() argument must be a string, a bytes-like "
                          \o "object or a real number, not '" \o days.cls \o "'"]
          ELSE LET n_days == n_days_of(days.value)
                   r == [c EXCEPT !.reads = <<[fn |-> "read_recent_notes",
                                               days |-> Some(n_days)]>>,
                                  !.files = files]
               IN IF read.raises
                  THEN last' = [r EXCEPT !.ret = "Error retrieving recent entries: "
                                                  \o read.text]
                  ELSE LET recent_docs == read_recent_notes(files, n_days)
                           sorted == sort_by_modified_time(recent_docs)
                           shown == most_recent(sorted)
                           results == [i \in 1..Len(shown) |-> recent_entry(shown[i])]
                       IN last' =
                            IF recent_docs = {}
                            THEN [r EXCEPT !.ret = "No entries found in the last "
                                                    \o PyStrInt(n_days) \o " days."]
                            ELSE [r EXCEPT
                                    !.documents = recent_docs,
                                    !.pieces = results,
                                    !.ret = Join(results, "\n")]
    /\ UNCHANGED <<attrs, config, reader, vectorstore, agent, llm, embeddings,
                   chat_history, nobjects>>

(***************************************************************************)
(* src/src/reader.py, the read methods called on the reader that           *)
(* load_notes constructed.                                                 *)
(***************************************************************************)
\* self.reader.read_all_notes()
call_read_all_notes(files) ==
    /\ IsSet(reader)
    /\ last' = [Call("read_all_notes") EXCEPT
                  !.files = files,
                  !.documents = read_all_notes(files)]
    /\ UNCHANGED <<attrs, config, reader, vectorstore, agent, llm, embeddings,
                   chat_history, nobjects>>

\* self.reader.read_recent_notes(days)
call_read_recent_notes(files, days) ==
    /\ IsSet(reader)
    /\ last' = [Call("read_recent_notes") EXCEPT
                  !.files = files,
                  !.days = Some(days),
                  !.documents = read_recent_notes(files, days)]
    /\ UNCHANGED <<attrs, config, reader, vectorstore, agent, llm, embeddings,
                   chat_history, nobjects>>

(***************************************************************************)
(* src/src/config.py.  The Config object is the record config; its fields  *)
(* are the fields of config.model, config.vault and config.agent.          *)
(***************************************************************************)
\* ModelConfig(), VaultConfig(), AgentConfig(): the dataclass defaults
\* (temperature is a float, kept as its text)
DefaultConfig ==
    [model_type |-> "openai", model_name |-> "gpt-4", api_key |-> None,
     base_url |-> "http://localhost:11434", temperature |-> "0.7", max_tokens |-> 2000,
     vault_path |-> "", load_days |-> Some(90), chunk_size |-> 1000, chunk_overlap |-> 200,
     verbose |-> FALSE, max_iterations |-> 5, search_results_limit |-> 5]

\* the attributes of each section's dataclass and the field of config that holds them
Fields ==
    [model |-> [type |-> "model_type", name |-> "model_name", api_key |-> "api_key",
                base_url |-> "base_url", temperature |-> "temperature",
                max_tokens |-> "max_tokens"],
     vault |-> [path |-> "vault_path", load_days |-> "load_days",
                chunk_size |-> "chunk_size", chunk_overlap |-> "chunk_overlap"],
     agent |-> [verbose |-> "verbose", max_iterations |-> "max_iterations",
                search_results_limit |-> "search_results_limit"]]

\* hasattr(self.<section>, key), for the keys of the YAML files of the model
hasattr(section, key) == key \in DOMAIN Fields[section]

\* Config._load_from_file, one section: for key, value in data[section].items():
\* if hasattr(..., key): setattr(..., key, value)
load_section(cfg, data, section) ==
    IF section \notin DOMAIN data THEN cfg
    ELSE LET items == data[section]
             known == {key \in DOMAIN items : hasattr(section, key)}
         IN [f \in DOMAIN cfg |->
                IF \E key \in known : Fields[section][key] = f
                THEN items[CHOOSE key \in known : Fields[section][key] = f]
                ELSE cfg[f]]

\* Config._load_from_file.  fs: the YAML files that exist, by name, each with
\* what yaml.safe_load returns for it (None for an empty file).
_load_from_file(cfg, config_path, fs) ==
    IF config_path \notin DOMAIN fs THEN cfg
    ELSE LET loaded == fs[config_path]
             data == IF IsSet(loaded) THEN Get(loaded) ELSE <<>>
         IN load_section(load_section(load_section(cfg, data, "model"),
                                      data, "vault"),
                         data, "agent")

\* an environment variable overriding as soon as it is set, empty or not
env_overrides_when_set(value) == value # None

\* if value := os.getenv(NAME): the variable is set and not empty
env_overrides(value) == value # None /\ Get(value) # ""

\* _load_from_env that takes the base URL from OLLAMA_BASE_URL as well
_load_from_env_base_url(cfg, env) ==
    LET a == IF env_overrides(env.OPENAI_API_KEY)
             THEN [cfg EXCEPT !.api_key = env.OPENAI_API_KEY] ELSE cfg
        b == IF env_overrides(env.OBSIDIAN_VAULT_PATH)
             THEN [a EXCEPT !.vault_path = Get(env.OBSIDIAN_VAULT_PATH)] ELSE a
        c == IF env_overrides(env.MODEL_TYPE)
             THEN [b EXCEPT !.model_type = Get(env.MODEL_TYPE)] ELSE b
        d == IF env_overrides(env.MODEL_NAME)
             THEN [c EXCEPT !.model_name = Get(env.MODEL_NAME)] ELSE c
    IN IF env_overrides(env.OLLAMA_BASE_URL)
       THEN [d EXCEPT !.base_url = Get(env.OLLAMA_BASE_URL)] ELSE d

\* Config._load_from_env
_load_from_env(cfg, env) ==
    LET a == IF env_overrides(env.OPENAI_API_KEY)
             THEN [cfg EXCEPT !.api_key = env.OPENAI_API_KEY] ELSE cfg
        b == IF env_overrides(env.OBSIDIAN_VAULT_PATH)
             THEN [a EXCEPT !.vault_path = Get(env.OBSIDIAN_VAULT_PATH)] ELSE a
        c == IF env_overrides(env.MODEL_TYPE)
             THEN [b EXCEPT !.model_type = Get(env.MODEL_TYPE)] ELSE b
    IN IF env_overrides(env.MODEL_NAME)
       THEN [c EXCEPT !.model_name = Get(env.MODEL_NAME)] ELSE c

\* Config.__init__, the choice of the file: config_path is Optional[str]
select_config_path(config_path, fs) ==
    IF config_path # None /\ Get(config_path) # "" THEN Get(config_path)
    ELSE IF "config.local.yaml" \in DOMAIN fs THEN "config.local.yaml"
    ELSE "config.yaml"

\* the configuration that Config(config_path) holds when constructed
loaded_config(config_path, fs, env) ==
    _load_from_env(_load_from_file(DefaultConfig, select_config_path(config_path, fs), fs),
                   env)

\* Config(config_path), constructed with the files fs and the environment env
Config(config_path, fs, env) ==
    /\ config' = loaded_config(config_path, fs, env)
    /\ LET path == select_config_path(config_path, fs) IN
       last' = [Call("Config") EXCEPT
                  !.message = path,
                  !.env = env,
                  !.yaml = IF path \in DOMAIN fs /\ IsSet(fs[path])
                           THEN Get(fs[path]) ELSE <<>>]
    /\ UNCHANGED <<attrs, reader, vectorstore, agent, llm, embeddings, chat_history,
                   nobjects>>

\* the user, their home directory and the working directory of the process
UserName == "user"
HomeDir == "/home/user"
WorkDir == "/work"

\* the index of the first "/" of a path, Len(path) + 1 when it has none
FirstSlash(path) ==
    LET slashes == {i \in 1..Len(path) : SubSeq(path, i, i) = "/"} IN
    IF slashes = {} THEN Len(path) + 1
    ELSE CHOOSE i \in slashes : \A j \in slashes : i <= j

\* Path(path).expanduser(): a first component "~" or "~name" becomes the home
\* directory of the user or of name; RuntimeError when that is not known.  A "~"
\* anywhere else is an ordinary character.
expanduser(path) ==
    IF path = "" \/ SubSeq(path, 1, 1) # "~"
    THEN [raised |-> "", path |-> path]
    ELSE LET k == FirstSlash(path)
             name == SubSeq(path, 2, k - 1)
             rest == SubSeq(path, k, Len(path))
         IN IF name = "" \/ name = UserName
            THEN [raised |-> "", path |-> HomeDir \o rest]
            ELSE [raised |-> "RuntimeError: Could not determine home directory.",
                  path |-> path]

\* Path.resolve() of a path without links and dots: absolute as it is, relative
\* below the working directory
resolve(path) ==
    IF SubSeq(path, 1, 1) = "/" THEN path ELSE WorkDir \o "/" \o path

\* validate asking every model type for an API key
api_key_missing_any_type(cfg) == cfg.api_key = None \/ Get(cfg.api_key) = ""

\* Config.validate: self.model.type == "openai" and not self.model.api_key
api_key_missing(cfg) ==
    cfg.model_type = "openai" /\ (cfg.api_key = None \/ Get(cfg.api_key) = "")

\* Config.validate().  existing: the directories that exist.
validate(existing) ==
    /\ LET c == [Call("validate") EXCEPT !.existing = existing, !.message = config.vault_path]
           expanded == expanduser(config.vault_path)
           expanded_path == resolve(expanded.path)
       IN IF config.vault_path = ""
          THEN /\ last' = [c EXCEPT !.raised = "ValueError: Vault path not configured"]
               /\ UNCHANGED config
          ELSE IF expanded.raised # ""
          THEN /\ last' = [c EXCEPT !.raised = expanded.raised]
               /\ UNCHANGED config
          ELSE /\ config' = [config EXCEPT !.vault_path = expanded_path]
               /\ last' =
                    IF expanded_path \notin existing
                    THEN [c EXCEPT !.raised = "ValueError: Vault path does not exist: "
                                               \o expanded_path]
                    ELSE IF api_key_missing(config)
                    THEN [c EXCEPT !.raised =
                            "ValueError: OpenAI API key required for openai model type"]
                    ELSE [c EXCEPT !.ret = "True"]
    /\ UNCHANGED <<attrs, reader, vectorstore, agent, llm, embeddings, chat_history,
                   nobjects>>

\* The YAML files of the model, as yaml.safe_load returns them
YamlOllama ==
    [model |-> [type |-> "ollama", name |-> "qwen3:4b-instruct"],
     vault |-> [path |-> "~/vault", load_days |-> Some(30)],
     agent |-> [search_results_limit |-> 3]]

YamlOpenai ==
    [model |-> [type |-> "openai", api_key |-> Some("sk-yaml"), colour |-> "red"],
     vault |-> [path |-> "/vault", load_days |-> None, owner |-> "me"],
     logging |-> [level |-> "DEBUG"]]

YamlVaultOnly == [vault |-> [path |-> "/data/journal~2024"]]

YamlOtherUser == [model |-> [type |-> "ollama"], vault |-> [path |-> "~ghost/vault"]]

\* the YAML files that exist when Config is constructed
ConfigFiles ==
    << <<>>,
       "config.yaml" :> Some(YamlOllama),
       "config.yaml" :> None,
       ("config.local.yaml" :> Some(YamlOpenai)) @@ ("config.yaml" :> Some(YamlOllama)),
       ("custom.yaml" :> Some(YamlVaultOnly)) @@ ("config.yaml" :> Some(YamlOllama)),
       "config.local.yaml" :> Some(YamlOtherUser) >>

ConfigPaths == {None, Some("custom.yaml")}

\* the environment: each variable that Config reads unset, set to the empty
\* string, or set; OLLAMA_BASE_URL stands for the variables it does not read
Environments ==
    [OPENAI_API_KEY : {None, Some(""), Some("sk-env")},
     OBSIDIAN_VAULT_PATH : {None, Some(""), Some("journal")},
     MODEL_TYPE : {None, Some(""), Some("ollama")},
     MODEL_NAME : {None, Some(""), Some("llama3")},
     OLLAMA_BASE_URL : {None, Some("http://gpu:11434")}]

\* the directories that exist when validate is called
ExistingDirs ==
    { {},
      {"/vault", "/home/user/vault"},
      {"/vault", "/home/user/vault", "/work/journal", "/data/journal~2024"} }

(***************************************************************************)
(* src/cli.py: the commands chat and ask.  cli.pc is the statement the     *)
(* command is at; every statement of the start-up and every turn of the    *)
(* chat loop is a step.                                                    *)
(***************************************************************************)
agent_vars == <<attrs, config, reader, vectorstore, agent, llm, embeddings,
                chat_history, nobjects>>

UpperCase == "ABCDEFGHIJKLMNOPQRSTUVWXYZ"
LowerCase == "abcdefghijklmnopqrstuvwxyz"

LowerCharOf(c) ==
    IF \E i \in 1..Len(UpperCase) : SubSeq(UpperCase, i, i) = c
    THEN LET i == CHOOSE j \in 1..Len(UpperCase) : SubSeq(UpperCase, j, j) = c
         IN SubSeq(LowerCase, i, i)
    ELSE c

\* the lower-case form of one character
LowerChar(c) == CHOOSE r \in {LowerCharOf(v) : v \in {c}} : TRUE

RECURSIVE PyLower(_)
PyLowerOf(s) ==
    IF s = "" THEN "" ELSE LowerChar(SubSeq(s, 1, 1)) \o PyLower(SubSeq(s, 2, Len(s)))

\* str.lower()
PyLower(s) == CHOOSE r \in {PyLowerOf(v) : v \in {s}} : TRUE

RECURSIVE PySplit(_)
\* str.split(): the words between runs of whitespace
PySplit(s) ==
    LET words == {i \in 1..Len(s) : SubSeq(s, i, i) \notin Whitespace} IN
    IF words = {} THEN <<>>
    ELSE LET first == CHOOSE i \in words : \A j \in words : i <= j
             gaps == {i \in first..Len(s) : SubSeq(s, i, i) \in Whitespace}
             stop == IF gaps = {} THEN Len(s) + 1
                     ELSE CHOOSE i \in gaps : \A j \in gaps : i <= j
         IN <<SubSeq(s, first, stop - 1)>> \o PySplit(SubSeq(s, stop, Len(s)))

(***************************************************************************)
(* console.print(text) of the rich library renders the console markup of   *)
(* text ("[red]", "[/red]", "[/]") and raises MarkupError for a closing    *)
(* tag that closes nothing.  cli.py puts what the user entered and the     *)
(* texts of exceptions into such texts.                                    *)
(***************************************************************************)
Char(s, i) == SubSeq(s, i, i)

\* the characters a tag starts with
TagStart == {Char(LowerCase, i) : i \in 1..Len(LowerCase)} \cup {"#", "/", "@"}

\* the "]" that ends the tag starting with the "[" at i, 0 when none starts there
tag_end(s, i) ==
    IF i + 1 > Len(s) \/ Char(s, i) # "[" \/ Char(s, i + 1) \notin TagStart THEN 0
    ELSE LET brackets == {j \in (i + 2)..Len(s) : Char(s, j) \in {"[", "]"}} IN
         IF brackets = {} THEN 0
         ELSE LET j == CHOOSE k \in brackets : \A l \in brackets : k <= l IN
              IF Char(s, j) = "]" THEN j ELSE 0

RECURSIVE backslashes(_, _, _)
\* the backslashes right before the "[" at i, from position p on
backslashes(s, i, p) ==
    IF i > p /\ Char(s, i - 1) = "\\" THEN 1 + backslashes(s, i - 1, p) ELSE 0

tag_name_of(tag_text) ==
    LET equals == {k \in 1..Len(tag_text) : Char(tag_text, k) = "="} IN
    IF equals = {} THEN tag_text
    ELSE SubSeq(tag_text, 1, (CHOOSE k \in equals : \A l \in equals : k <= l) - 1)

\* the name of a tag: its text up to "="
tag_name(tag_text) == CHOOSE r \in {tag_name_of(v) : v \in {tag_text}} : TRUE

normalize_of(name) ==
    CASE name = "b" -> "bold"
      [] name = "i" -> "italic"
      [] name = "u" -> "underline"
      [] name = "s" -> "strike"
      [] OTHER -> PyLower(PyStrip(name))

\* Style.normalize for the names of styles: the short names of the attributes
\* are written out, other names are stripped and lower-cased
normalize(name) == CHOOSE r \in {normalize_of(v) : v \in {name}} : TRUE

RECURSIVE render(_, _, _)
\* render at the tag that starts at i, the first one from position p on
render_tag(markup, p, style_stack, i) ==
         LET j == tag_end(markup, i)
             name == tag_name(SubSeq(markup, i + 1, j - 1))
             style_name == PyStrip(SubSeq(name, 2, Len(name)))
             open == {k \in 1..Len(style_stack) : style_stack[k] = normalize(style_name)}
         IN
         IF backslashes(markup, i, p) % 2 = 1
         THEN render(markup, j + 1, style_stack)
         ELSE IF Char(name, 1) # "/"
         THEN render(markup, j + 1, Append(style_stack, normalize(name)))
         ELSE IF style_name = ""
         THEN IF style_stack = <<>>
              THEN "closing tag '[/]' at position " \o PyStrInt(i - 1)
                   \o " has nothing to close"
              ELSE render(markup, j + 1, SubSeq(style_stack, 1, Len(style_stack) - 1))
         ELSE IF open = {}
         THEN "closing tag '" \o SubSeq(markup, i, j) \o "' at position "
              \o PyStrInt(i - 1) \o " doesn't match any open tag"
         ELSE LET match == CHOOSE n \in open : \A l \in open : l <= n IN
              render(markup, j + 1,
                     SubSeq(style_stack, 1, match - 1)
                     \o SubSeq(style_stack, match + 1, Len(style_stack)))

\* rich.markup.render(markup) from position p on, with the tags style_stack open:
\* the text of the MarkupError it raises, "" when it returns
render(markup, p, style_stack) ==
    CHOOSE r \in
        {IF \E i \in q..Len(m) : tag_end(m, i) # 0
         THEN render_tag(m, q, s,
                         CHOOSE i \in q..Len(m) :
                            /\ tag_end(m, i) # 0
                            /\ \A l \in q..(i - 1) : tag_end(m, l) = 0)
         ELSE "" : m \in {markup}, q \in {p}, s \in {style_stack}} : TRUE

\* console.print(text): the text of the MarkupError it raises, "" when it prints
MarkupError(text) == render(text, 1, <<>>)

\* chat, "command = user_input.lower().split()[0]"
repl_command(user_input) == PySplit(PyLower(user_input))[1]

\* /recent asking for 30 days when no number is given
recent_request_default_30(user_input) ==
    LET parts == PySplit(user_input) IN
    IF Len(parts) > 1 /\ ~PyInt(parts[2]).ok
    THEN [ok |-> FALSE, text |-> ""]
    ELSE [ok |-> TRUE,
          text |-> "Show me my journal entries from the last "
                   \o PyStrInt(IF Len(parts) > 1 THEN PyInt(parts[2]).value ELSE 30)
                   \o " days"]

\* chat, the /recent command: days_arg = int(parts[1]) if len(parts) > 1 else 7,
\* not ok when int() raises ValueError
recent_request(user_input) ==
    LET parts == PySplit(user_input) IN
    IF Len(parts) > 1 /\ ~PyInt(parts[2]).ok
    THEN [ok |-> FALSE, text |-> ""]
    ELSE [ok |-> TRUE,
          text |-> "Show me my journal entries from the last "
                   \o PyStrInt(IF Len(parts) > 1 THEN PyInt(parts[2]).value ELSE 7)
                   \o " days"]

\* SableyeAgent.chat(message) during which KeyboardInterrupt is raised in
\* agent.invoke: it is no Exception, so it leaves chat, after the user's message
\* was appended
chat_interrupted(message) ==
    /\ attrs # {}
    /\ IsSet(agent)
    /\ LET history == Append(chat_history, [role |-> "user", content |-> message]) IN
       /\ chat_history' = history
       /\ last' = [Call("chat") EXCEPT
                     !.message = message,
                     !.invokes = <<[messages |-> invoke_messages(history)]>>,
                     !.raised = "KeyboardInterrupt"]
    /\ UNCHANGED <<attrs, config, reader, vectorstore, agent, llm, embeddings, nobjects>>

\* agent.chat(message) as the commands call it.  out: what agent.invoke does.
agent_chat(message, out) ==
    IF "interrupt" \in DOMAIN out THEN chat_interrupted(message) ELSE chat(message, out)

\* print_stats(agent).  files: the vault when the reader reads it.
print_stats(files) ==
    /\ last' = IF ~IsSet(reader)
               THEN Call("print_stats")
               ELSE [Call("print_stats") EXCEPT
                       !.files = files,
                       !.documents = read_all_notes(files),
                       !.reads = <<[fn |-> "read_all_notes", days |-> None],
                                   [fn |-> "read_recent_notes", days |-> Some(30)]>>]
    /\ UNCHANGED agent_vars

\* a statement of the chat loop that calls nothing of the agent
console(op, text) ==
    /\ last' = [Call(op) EXCEPT !.message = text]
    /\ UNCHANGED agent_vars

\* the start-up going on after a step that raised
startup_next_unchecked(raised, pc) == [cli EXCEPT !.pc = pc]

\* chat and ask, the try around the start-up: a step that raises ends the
\* command in "except Exception: ... sys.exit(1)" (exit status 1 also when the
\* handler's print raises), one that returns leads to pc
startup_next(raised, pc) ==
    IF raised = "" THEN [cli EXCEPT !.pc = pc]
    ELSE [cli EXCEPT !.pc = "done", !.exit_status = Some(1)]

\* cfg = Config(config).  parses: whether yaml.safe_load accepts the file, if
\* there is one.
cli_config(config_path, fs, env, parses) ==
    /\ cli.pc = "config"
    /\ (~parses => select_config_path(config_path, fs) \in DOMAIN fs)
    /\ IF parses
       THEN Config(config_path, fs, env)
       ELSE /\ last' = [Call("Config") EXCEPT
                          !.message = select_config_path(config_path, fs),
                          !.raised = "YAMLError: could not parse the file"]
            /\ UNCHANGED agent_vars
    /\ cli' = startup_next(last'.raised,
                            IF cli.command = "chat" THEN "verbose" ELSE "validate")

\* chat: if verbose: cfg.agent.verbose = True (ask has no such statement)
cli_verbose ==
    /\ cli.pc = "verbose"
    /\ config' = IF cli.verbose THEN [config EXCEPT !.verbose = TRUE] ELSE config
    /\ cli' = [cli EXCEPT !.pc = "validate"]
    /\ UNCHANGED <<attrs, reader, vectorstore, agent, llm, embeddings, chat_history,
                   nobjects, last>>

\* cfg.validate()
cli_validate(existing) ==
    /\ cli.pc = "validate"
    /\ validate(existing)
    /\ cli' = startup_next(last'.raised, "construct")

\* agent = SableyeAgent(cfg)
cli_construct ==
    /\ cli.pc = "construct"
    /\ __init__
    /\ cli' = startup_next(last'.raised, "load_notes")

\* agent.load_notes(days=days)
cli_load_notes(path_exists, files, build_ok) ==
    /\ cli.pc = "load_notes"
    /\ load_notes(cli.days, path_exists, files, build_ok)
    /\ cli' = startup_next(last'.raised, "initialize")

\* agent.initialize()
cli_initialize ==
    /\ cli.pc = "initialize"
    /\ initialize
    /\ cli' = startup_next(last'.raised, IF cli.command = "chat" THEN "repl" ELSE "ask")

\* ask: response = agent.chat(query), and the command returns
cli_ask(out) ==
    /\ cli.pc = "ask"
    /\ agent_chat(cli.input, out)
    /\ cli' = [cli EXCEPT !.pc = "done",
                          !.exit_status = IF last'.raised = "" THEN Some(0) ELSE Some(1)]

\* chat, "except Exception as e" of the loop: the handler prints e and the loop
\* goes on; a MarkupError of that print leaves the loop and reaches the handler
\* of the command, whose print of it raises again: the process ends with a
\* traceback and exit status 1
loop_except(turn, e) ==
    IF MarkupError("\n[red]Error: " \o e \o "[/red]") = "" THEN turn
    ELSE [turn EXCEPT !.pc = "done", !.exit_status = Some(1)]

\* chat: one turn of "while True".  ev: what session.prompt does, a line that
\* the user entered or an exception; out: what agent.invoke does if the agent is
\* asked; files: the vault if it is read.
chat_loop(ev, out, files) ==
    /\ cli.pc = "repl"
    /\ LET user_input == PyStrip(ev.text)
           turn == [cli EXCEPT !.event = ev.kind, !.input = ev.text]
           command == repl_command(user_input)
           unknown == MarkupError("[red]Unknown command: " \o command \o "[/red]")
       IN
       IF ev.kind = "KeyboardInterrupt"
       THEN /\ last' = [Call("prompt") EXCEPT !.raised = ev.kind]
            /\ UNCHANGED agent_vars
            /\ cli' = turn
       ELSE IF ev.kind = "EOFError"
       THEN /\ last' = [Call("prompt") EXCEPT !.raised = ev.kind]
            /\ UNCHANGED agent_vars
            /\ cli' = loop_except(turn, "")
       ELSE IF user_input = ""
       THEN console("prompt", user_input) /\ cli' = turn
       ELSE IF Char(user_input, 1) # "/"
       THEN agent_chat(user_input, out) /\ cli' = turn
       ELSE CASE command \in {"/exit", "/quit", "/q"} ->
                    /\ console("goodbye", user_input)
                    /\ cli' = [turn EXCEPT !.pc = "done", !.exit_status = Some(0)]
              [] command = "/help" -> console("print_help", user_input) /\ cli' = turn
              [] command = "/stats" -> print_stats(files) /\ cli' = turn
              [] command = "/clear" -> console("clear", user_input) /\ cli' = turn
              [] command = "/reset" -> clear_memory /\ cli' = turn
              [] command = "/memory" ->
                    /\ get_memory_summary
                    /\ LET e == MarkupError(Join(last'.pieces, "")) IN
                       cli' = IF e = "" THEN turn ELSE loop_except(turn, e)
              [] command = "/recent" ->
                    /\ IF recent_request(user_input).ok
                       THEN agent_chat(recent_request(user_input).text, out)
                       ELSE console("invalid_format", user_input)
                    /\ cli' = turn
              [] OTHER ->
                    /\ last' = [Call("unknown_command") EXCEPT
                                  !.message = user_input,
                                  !.raised = IF unknown = "" THEN ""
                                             ELSE "MarkupError: " \o unknown]
                    /\ UNCHANGED agent_vars
                    /\ cli' = IF unknown = "" THEN turn ELSE loop_except(turn, unknown)

\* what the user may enter at the prompt
ReplLines ==
    {"", "  ", "exit", "/exit", "/QUIT now", " /q ", "/help", "/stats", "/clear",
     "/reset", "/memory", "/recent", "/Recent 3", "/recent abc", "/exits", "/[/b]"}

\* what session.prompt may do
ReplEvents ==
    {[kind |-> "line", text |-> t] : t \in ReplLines}
    \cup {[kind |-> "KeyboardInterrupt", text |-> ""], [kind |-> "EOFError", text |-> ""]}

\* what agent.invoke may do while a command waits for it
CliInvokeOutcomes ==
    {[raises |-> FALSE, response |-> [messages |-> <<[cls |-> "AIMessage",
                                                      content |-> "Test response"]>>]],
     [raises |-> TRUE, text |-> "Chat error"],
     [raises |-> TRUE, text |-> "KeyboardInterrupt", interrupt |-> TRUE]}

\* the environments of the commands
CliEnvironments ==
    {[OPENAI_API_KEY |-> None, OBSIDIAN_VAULT_PATH |-> None,
      MODEL_TYPE |-> None, MODEL_NAME |-> None, OLLAMA_BASE_URL |-> None],
     [OPENAI_API_KEY |-> None, OBSIDIAN_VAULT_PATH |-> Some("journal"),
      MODEL_TYPE |-> Some("llama"), MODEL_NAME |-> None, OLLAMA_BASE_URL |-> None]}

(***************************************************************************)
(* The specification: a configuration is given, a SableyeAgent is          *)
(* constructed from it and its methods are called in any order.            *)
(***************************************************************************)
Queries == {"happy", ""}

\* the configurations an agent is constructed from
Configs ==
    {[model_type |-> t, load_days |-> c[1], search_results_limit |-> c[2],
      vault_path |-> "/vault"] :
        t \in ModelTypes, c \in {<<Some(90), 5>>, <<None, 3>>}}

Unconstructed ==
    /\ attrs = {}
    /\ reader = None
    /\ vectorstore = None
    /\ agent = None
    /\ llm = None
    /\ embeddings = None
    /\ chat_history = <<>>
    /\ nobjects = 0
    /\ last = Call("")

\* no command of cli.py runs: the methods are called directly, as the tests do
NoCommand ==
    [command |-> "", verbose |-> FALSE, days |-> None, pc |-> "", event |-> "",
     input |-> "", exit_status |-> None]

Init ==
    /\ config \in Configs
    /\ Unconstructed
    /\ cli = NoCommand

Next ==
    \/ last.op = "" /\ __init__ /\ UNCHANGED cli
    \/ \E days \in DaysArgs, path_exists \in BOOLEAN, files \in Vaults, build_ok \in BOOLEAN :
          /\ nobjects < MaxObjects
          /\ load_notes(days, path_exists, files, build_ok)
          /\ UNCHANGED cli
    \/ initialize /\ UNCHANGED cli
    \/ \E message \in Messages, out \in InvokeOutcomes :
          Len(chat_history) + 2 <= MaxHistory /\ chat(message, out) /\ UNCHANGED cli
    \/ clear_memory /\ UNCHANGED cli
    \/ get_memory_summary /\ UNCHANGED cli
    \/ \E query \in Queries, out \in AllSearchOutcomes :
          _search_notes(query, out) /\ UNCHANGED cli
    \/ \E query \in Queries, out \in AllSearchOutcomes :
          _analyze_mood_patterns(query, out) /\ UNCHANGED cli
    \/ \E query \in Queries, out \in AllSearchOutcomes :
          _find_goals(query, out) /\ UNCHANGED cli

Spec == Init /\ [][Next]_vars

(***************************************************************************)
(* The long conversations: one configuration, notes loaded once, and then  *)
(* chat, clear_memory and get_memory_summary in any order, long enough for *)
(* the conversation to outgrow the last-10 window.                         *)
(***************************************************************************)
InitConversation ==
    /\ config = [model_type |-> "ollama", load_days |-> Some(90),
                 search_results_limit |-> 5, vault_path |-> "/vault"]
    /\ Unconstructed
    /\ cli = NoCommand

NextConversation ==
    \/ last.op = "" /\ __init__ /\ UNCHANGED cli
    \/ /\ nobjects < 1
       /\ load_notes(None, TRUE, {Note("today.md"), Note("old.md")}, TRUE)
       /\ UNCHANGED cli
    \/ initialize /\ UNCHANGED cli
    \/ \E message \in Messages, out \in InvokeOutcomes :
          Len(chat_history) + 2 <= MaxLongHistory /\ chat(message, out) /\ UNCHANGED cli
    \/ clear_memory /\ UNCHANGED cli
    \/ get_memory_summary /\ UNCHANGED cli

SpecConversation == InitConversation /\ [][NextConversation]_vars


(***************************************************************************)
(* The reader: one configuration; the vault is read by load_notes and by   *)
(* the methods of the reader it constructs, and may hold other files each  *)
(* time it is read.                                                        *)
(***************************************************************************)
InitReader ==
    /\ config = [model_type |-> "ollama", load_days |-> None,
                 search_results_limit |-> 3, vault_path |-> "/vault"]
    /\ Unconstructed
    /\ cli = NoCommand

NextReader ==
    \/ last.op = "" /\ __init__ /\ UNCHANGED cli
    \/ \E days \in {None, Some(4)}, files \in ReaderVaults, build_ok \in BOOLEAN :
          /\ nobjects < MaxObjects
          /\ load_notes(days, TRUE, files, build_ok)
          /\ UNCHANGED cli
    \/ \E files \in ReaderVaults : call_read_all_notes(files) /\ UNCHANGED cli
    \/ \E files \in ReaderVaults, days \in ReaderDays :
          call_read_recent_notes(files, days) /\ UNCHANGED cli

SpecReader == InitReader /\ [][NextReader]_vars

(***************************************************************************)
(* The tools: the agent is constructed and initialized once, and the agent *)
(* loop calls the four tool functions with any input.                      *)
(***************************************************************************)
NextTools ==
    \/ last.op = "" /\ __init__ /\ UNCHANGED cli
    \/ \E files \in {Notes, Notes \cup MoreFiles} :
          nobjects < 1 /\ load_notes(None, TRUE, files, TRUE) /\ UNCHANGED cli
    \/ initialize /\ UNCHANGED cli
    \/ \E query \in Queries, out \in AllToolSearchOutcomes :
          _search_notes(query, out) /\ UNCHANGED cli
    \/ \E query \in Queries, out \in AllToolSearchOutcomes :
          _analyze_mood_patterns(query, out) /\ UNCHANGED cli
    \/ \E query \in Queries, out \in AllToolSearchOutcomes :
          _find_goals(query, out) /\ UNCHANGED cli
    \/ \E days \in DaysInputs, files \in ReaderVaults, read \in ReadOutcomes :
          _get_recent_entries(days, files, read) /\ UNCHANGED cli

SpecTools == InitReader /\ [][NextTools]_vars

(***************************************************************************)
(* The journal: the agent is constructed and initialized over a vault of   *)
(* twelve notes, and get_recent_entries is called with any input while the *)
(* vault holds the journal, other files or nothing.                        *)
(***************************************************************************)
NextJournal ==
    \/ last.op = "" /\ __init__ /\ UNCHANGED cli
    \/ nobjects < 1 /\ load_notes(None, TRUE, Journal, TRUE) /\ UNCHANGED cli
    \/ initialize /\ UNCHANGED cli
    \/ \E days \in DaysInputs, files \in ReaderVaults \cup {Journal},
          read \in ReadOutcomes :
          _get_recent_entries(days, files, read) /\ UNCHANGED cli

SpecJournal == InitReader /\ [][NextJournal]_vars

(***************************************************************************)
(* src/skills: ask_past_self, track_progress and energy_tracker.  A skill  *)
(* is the function that create_tool(llm, vectorstore, reader) closes over  *)
(* the agent's language model, vector store and reader.                    *)
(***************************************************************************)
\* The input of a skill: a string, unless the caller passes None
SkillInputs ==
    {[cls |-> "str", value |-> v] : v \in {"learning Rust", ""}}
    \cup {[cls |-> "NoneType", value |-> "None"]}

\* The input of energy_tracker
EnergyInputs ==
    {[cls |-> "str", value |-> v] : v \in {"30", "4", "a week"}}
    \cup {[cls |-> "NoneType", value |-> "None"]}

\* The prompt file of a skill, src/prompts/<skill>.md: missing, a template, or a
\* file whose read_text raises
PromptFiles ==
    {[exists |-> FALSE],
     [exists |-> TRUE, readable |-> TRUE,
      text |-> "{{question}}{{goal}}\n{{notes}}\n{{question}}{{goal}}"],
     [exists |-> TRUE, readable |-> FALSE, text |-> "Permission denied"]}

\* What llm.invoke(prompt) may do: return a message with a content attribute,
\* return a plain string (a completion model), or raise
LlmOutcomes ==
    {[raises |-> FALSE, cls |-> "AIMessage", content |-> "You did well."],
     [raises |-> FALSE, cls |-> "str", value |-> "You did well."],
     [raises |-> TRUE, text |-> "LLM error"]}

\* not question, not goal
not_given(input) == input.cls = "NoneType" \/ input.value = ""

RECURSIVE PyReplace(_, _, _)
\* s.replace(old, new) of Python strings, old not empty
PyReplace(s, old, new) ==
    IF Len(s) < Len(old) THEN s
    ELSE IF SubSeq(s, 1, Len(old)) = old
    THEN new \o PyReplace(SubSeq(s, Len(old) + 1, Len(s)), old, new)
    ELSE SubSeq(s, 1, 1) \o PyReplace(SubSeq(s, 2, Len(s)), old, new)

RECURSIVE sorted_by_modified_time(_)
\* sorted(docs, key=modified_time): earliest first, documents of equal
\* modified_time in the order they had
sorted_by_modified_time(docs) ==
    IF docs = <<>> THEN <<>>
    ELSE LET first == CHOOSE i \in 1..Len(docs) :
                         /\ \A j \in 1..Len(docs) :
                               ~StrLess(docs[j].metadata.modified_time,
                                        docs[i].metadata.modified_time)
                         /\ \A j \in 1..(i - 1) :
                               StrLess(docs[i].metadata.modified_time,
                                       docs[j].metadata.modified_time)
         IN <<docs[first]>>
            \o sorted_by_modified_time(SubSeq(docs, 1, first - 1)
                                       \o SubSeq(docs, first + 1, Len(docs)))

\* the entry of a document in the notes_text of a skill
skill_entry(doc) ==
    "--- " \o PyHead(doc.metadata.modified_time, 10) \o " - " \o doc.metadata.file_name
        \o " ---\n" \o doc.page_content

\* "\n\n".join of the entries of the documents
notes_text_of(docs) == Join([i \in 1..Len(docs) |-> skill_entry(docs[i])], "\n\n")

\* a skill whose handler returns the bare prefix
skill_error_silent(prefix, text) == prefix

\* the skills' "except Exception as e: return f'Error ...: {str(e)}'"
skill_error(prefix, text) == prefix \o text

\* response.content if hasattr(response, 'content') else str(response)
result_of(response) ==
    IF response.cls = "str" THEN response.value ELSE response.content

\* the part of the three skills after notes_text: the prompt is loaded, the
\* language model is invoked once and its result returned.  c: the call so far.
skill_answer(c, prefix, template_prompt, fallback_prompt, pf, out) ==
    LET loaded == [c EXCEPT !.prompt_files = <<pf>>] IN
    IF pf.exists /\ ~pf.readable
    THEN [loaded EXCEPT !.ret = skill_error(prefix, pf.text)]
    ELSE LET prompt == IF pf.exists THEN template_prompt ELSE fallback_prompt
             invoked == [loaded EXCEPT !.invokes = <<prompt>>]
         IN IF out.raises
            THEN [invoked EXCEPT !.ret = skill_error(prefix, out.text)]
            ELSE [invoked EXCEPT !.ret = result_of(out)]

\* ask_past_self(question).  search: what vectorstore.similarity_search does;
\* pf: the prompt file; out: what llm.invoke does.
ask_past_self(question, search, pf, out) ==
    /\ IsSet(vectorstore)
    /\ search \in SearchOutcomes(Get(vectorstore), 12)
    /\ LET prefix == "Error querying past notes: "
           c == [Call("ask_past_self") EXCEPT
                   !.message = question.value, !.cls = question.cls,
                   !.outcome = Some([search |-> search, llm |-> out])]
           s == [c EXCEPT !.searches = <<[query |-> question.value, k |-> 12]>>]
       IN last' =
            IF not_given(question)
            THEN [c EXCEPT !.ret =
                    "Please provide a question to search for in your past notes."]
            ELSE IF search.raises
            THEN [s EXCEPT !.ret = skill_error(prefix, search.text)]
            ELSE IF search.docs = <<>>
            THEN [s EXCEPT !.ret = "No relevant entries found for: " \o question.value]
            ELSE LET notes_text == notes_text_of(search.docs) IN
                 skill_answer(
                    [s EXCEPT !.documents = {search.docs[i] : i \in 1..Len(search.docs)}], prefix,
                    PyReplace(PyReplace(pf.text, "{{question}}", question.value),
                              "{{notes}}", notes_text),
                    "Question: " \o question.value \o "\n\nPast entries:\n" \o notes_text
                        \o "\n\nBased on these past notes, provide an answer with "
                        \o "supporting evidence and dates.\n",
                    pf, out)
    /\ UNCHANGED <<attrs, config, reader, vectorstore, agent, llm, embeddings,
                   chat_history, nobjects>>

\* track_progress(goal)
track_progress(goal, search, pf, out) ==
    /\ IsSet(vectorstore)
    /\ search \in SearchOutcomes(Get(vectorstore), 20)
    /\ LET prefix == "Error tracking progress: "
           c == [Call("track_progress") EXCEPT
                   !.message = goal.value, !.cls = goal.cls,
                   !.outcome = Some([search |-> search, llm |-> out])]
           s == [c EXCEPT !.searches = <<[query |-> goal.value, k |-> 20]>>]
       IN last' =
            IF not_given(goal)
            THEN [c EXCEPT !.ret =
                    "Please specify a goal or habit to track "
                    \o "(e.g., 'learning Rust', 'daily exercise')."]
            ELSE IF search.raises
            THEN [s EXCEPT !.ret = skill_error(prefix, search.text)]
            ELSE IF search.docs = <<>>
            THEN [s EXCEPT !.ret = "No entries found mentioning '" \o goal.value \o "'."]
            ELSE LET docs_sorted == sorted_by_modified_time(search.docs)
                     notes_text == notes_text_of(docs_sorted)
                 IN skill_answer(
                      [s EXCEPT !.documents = {search.docs[i] : i \in 1..Len(search.docs)}], prefix,
                      PyReplace(PyReplace(pf.text, "{{goal}}", goal.value),
                                "{{notes}}", notes_text),
                      "Track progress for: " \o goal.value \o "\n\nEntries:\n" \o notes_text
                          \o "\n\nAnalyze the progress, identify patterns, and provide "
                          \o "recommendations.\n",
                      pf, out)
    /\ UNCHANGED <<attrs, config, reader, vectorstore, agent, llm, embeddings,
                   chat_history, nobjects>>

energy_keywords ==
    <<"energy", "tired", "exhausted", "energized", "motivated", "focus", "focused",
      "productive", "unproductive", "lazy", "alert", "sleepy", "refreshed", "drained",
      "burnout">>

\* energy_tracker: try n_days = int(days), except ValueError 30
energy_n_days(days) == LET p == PyInt(days) IN IF p.ok THEN p.value ELSE 30

RECURSIVE unique_by_content(_)
\* list({doc.page_content: doc for doc in docs}.values()): one document for
\* each content, the last one that has it, at the place of the first
unique_by_content(docs) ==
    IF docs = <<>> THEN <<>>
    ELSE LET same == {i \in 1..Len(docs) : docs[i].page_content = docs[1].page_content}
             kept == docs[CHOOSE i \in same : \A j \in same : j <= i]
             rest == SelectSeq(Tail(docs),
                               LAMBDA d : d.page_content # docs[1].page_content)
         IN <<kept>> \o unique_by_content(rest)

\* energy_tracker(days).  files: the vault when the reader reads it; read:
\* whether reader.read_recent_notes returns or raises; recent_docs: the list it
\* returns, in the order rglob lists the files.
energy_tracker(days, files, read, recent_docs, search, pf, out) ==
    /\ IsSet(vectorstore)
    /\ search \in SearchOutcomes(Get(vectorstore), 20)
    /\ recent_docs \in
          IF days.cls = "str"
          THEN LET found == read_recent_notes(files, energy_n_days(days.value))
               IN DocLists(found, Cardinality(found))
          ELSE {<<>>}
    /\ LET prefix == "Error tracking energy: "
           c == [Call("energy_tracker") EXCEPT
                   !.message = days.value, !.cls = days.cls,
                   !.outcome = Some([search |-> search, llm |-> out, read |-> read])]
       IN last' =
            IF days.cls # "str"
            THEN [c EXCEPT !.ret = skill_error(prefix,
                     "int() argument must be a string, a bytes-like object or a real "
                     \o "number, not '" \o days.cls \o "'")]
            ELSE LET n_days == energy_n_days(days.value)
                     r == [c EXCEPT !.reads = <<[fn |-> "read_recent_notes",
                                                 days |-> Some(n_days)]>>,
                                    !.files = files]
                     recent == read_recent_notes(files, n_days)
                     s == [r EXCEPT !.searches =
                             <<[query |-> Join(energy_keywords, " "), k |-> 20]>>]
                 IN IF read.raises
                    THEN [r EXCEPT !.ret = skill_error(prefix, read.text)]
                    ELSE IF recent_docs = <<>>
                    THEN [r EXCEPT !.ret = "No entries found in the last "
                                            \o PyStrInt(n_days) \o " days."]
                    ELSE IF search.raises
                    THEN [s EXCEPT !.documents = recent,
                                   !.ret = skill_error(prefix, search.text)]
                    ELSE LET unique_docs == sorted_by_modified_time(
                                               unique_by_content(recent_docs \o search.docs))
                             shown == SubSeq(unique_docs, 1, Min(25, Len(unique_docs)))
                             notes_text == notes_text_of(shown)
                         IN skill_answer(
                              [s EXCEPT !.documents = {unique_docs[i] : i \in 1..Len(unique_docs)}],
                              prefix,
                              PyReplace(pf.text, "{{notes}}", notes_text),
                              "Analyze energy levels and productivity patterns:\n\n"
                                  \o notes_text
                                  \o "\n\nIdentify high/low energy periods, energy "
                                  \o "boosters/drains, and provide schedule "
                                  \o "recommendations.\n",
                              pf, out)
    /\ UNCHANGED <<attrs, config, reader, vectorstore, agent, llm, embeddings,
                   chat_history, nobjects>>

(***************************************************************************)
(* The skills: an agent is constructed, notes are loaded once, and the     *)
(* three skill functions made from its language model, vector store and    *)
(* reader are called with any input.                                       *)
(***************************************************************************)
SkillSearchOutcomes == SearchOutcomes([docs |-> read_all_notes(Notes)], 20)

NextSkills ==
    \/ last.op = "" /\ __init__ /\ UNCHANGED cli
    \/ nobjects < 1 /\ load_notes(None, TRUE, Notes, TRUE) /\ UNCHANGED cli
    \/ \E question \in SkillInputs, search \in SkillSearchOutcomes,
          pf \in PromptFiles, out \in LlmOutcomes :
          ask_past_self(question, search, pf, out) /\ UNCHANGED cli
    \/ \E goal \in SkillInputs, search \in SkillSearchOutcomes,
          pf \in PromptFiles, out \in LlmOutcomes :
          track_progress(goal, search, pf, out) /\ UNCHANGED cli
    \/ \E days \in EnergyInputs, files \in {Notes, {Note("old.md")}},
          read \in ReadOutcomes, search \in SkillSearchOutcomes,
          pf \in PromptFiles, out \in LlmOutcomes :
          \E recent_docs \in DocLists(read_all_notes(files), 0)
                              \cup DocLists(read_all_notes(files), 1)
                              \cup DocLists(read_all_notes(files), 2) :
             energy_tracker(days, files, read, recent_docs, search, pf, out)
             /\ UNCHANGED cli

SpecSkills == InitReader /\ [][NextSkills]_vars


(***************************************************************************)
(* The configuration: Config objects are constructed from the files and    *)
(* the environment, and validated.                                         *)
(***************************************************************************)
InitConfig ==
    /\ config = DefaultConfig
    /\ Unconstructed
    /\ cli = NoCommand

NextConfig ==
    \/ \E config_path \in ConfigPaths, i \in 1..Len(ConfigFiles), env \in Environments :
          Config(config_path, ConfigFiles[i], env) /\ UNCHANGED cli
    \/ \E existing \in ExistingDirs : validate(existing) /\ UNCHANGED cli

SpecConfig == InitConfig /\ [][NextConfig]_vars


(***************************************************************************)
(* The commands: cli.py is started as chat (with or without --verbose and  *)
(* --days) or as ask "Hello", and runs until it exits.                     *)
(***************************************************************************)
InitCli ==
    /\ config = DefaultConfig
    /\ Unconstructed
    /\ cli \in {[NoCommand EXCEPT !.command = "chat", !.pc = "config"],
                [NoCommand EXCEPT !.command = "chat", !.pc = "config",
                                  !.verbose = TRUE, !.days = Some(4)],
                [NoCommand EXCEPT !.command = "ask", !.pc = "config", !.input = "Hello"]}

NextCli ==
    \/ \E i \in {1, 2}, env \in CliEnvironments, parses \in BOOLEAN :
          cli_config(None, ConfigFiles[i], env, parses)
    \/ cli_verbose
    \/ \E existing \in ExistingDirs : cli_validate(existing)
    \/ cli_construct
    \/ \E path_exists \in BOOLEAN, files \in {{}, Notes}, build_ok \in BOOLEAN :
          cli_load_notes(path_exists, files, build_ok)
    \/ cli_initialize
    \/ \E out \in CliInvokeOutcomes : cli_ask(out)
    \/ \E ev \in ReplEvents, out \in CliInvokeOutcomes, files \in {Notes} :
          chat_loop(ev, out, files) /\ Len(chat_history') <= MaxCliHistory

SpecCli == InitCli /\ [][NextCli]_vars


(***************************************************************************)
(* The chat command at the end of its input: standard input is exhausted   *)
(* (a closed terminal, input from a file that has ended), so that every     *)
(* session.prompt raises EOFError.  Each statement of the command is taken  *)
(* when it can be: nothing else stops the process.                          *)
(***************************************************************************)
EndOfInput == [kind |-> "EOFError", text |-> ""]

InitCliEndOfInput ==
    /\ config = DefaultConfig
    /\ Unconstructed
    /\ cli \in {[NoCommand EXCEPT !.command = "chat", !.pc = "config"],
                [NoCommand EXCEPT !.command = "chat", !.pc = "config",
                                  !.verbose = TRUE, !.days = Some(4)]}

NextCliEndOfInput ==
    \/ \E i \in 1..Len(ConfigFiles), env \in CliEnvironments, parses \in BOOLEAN :
          cli_config(None, ConfigFiles[i], env, parses)
    \/ cli_verbose
    \/ \E existing \in ExistingDirs : cli_validate(existing)
    \/ cli_construct
    \/ \E path_exists \in BOOLEAN, files \in {{}, Notes}, build_ok \in BOOLEAN :
          cli_load_notes(path_exists, files, build_ok)
    \/ cli_initialize
    \/ \E out \in CliInvokeOutcomes : chat_loop(EndOfInput, out, Notes)

SpecCliEndOfInput ==
    InitCliEndOfInput /\ [][NextCliEndOfInput]_vars /\ WF_vars(NextCliEndOfInput)

(***************************************************************************)
(* The claims.                                                             *)
(***************************************************************************)

\* C1: when agent.invoke raises during chat(message) on an initialized agent,
\* chat does not raise and does not call invoke again: it returns
\* "I encountered an error: " followed by the text of the exception.
C1_ChatReturnsErrorString ==
    (last.op = "chat" /\ IsSet(last.outcome) /\ Get(last.outcome).raises) =>
        /\ last.raised = ""
        /\ Len(last.invokes) = 1
        /\ last.ret = "I encountered an error: " \o Get(last.outcome).text

\* a chat whose agent invocation raised, in a conversation that already has a reply
C1_Witness ==
    /\ last.op = "chat"
    /\ IsSet(last.outcome)
    /\ Get(last.outcome).raises
    /\ Len(chat_history) >= 3
    /\ last.ret = "I encountered an error: Chat error"

\* C2: the lifecycle is load_notes, initialize, chat.  An agent that is set
\* implies a vector store that is set; initialize() without a vector store raises
\* ValueError and leaves the agent unset; chat() without an agent raises ValueError
\* and leaves chat_history as it was.
C2_LifecycleGated ==
    [][ /\ IsSet(agent') => IsSet(vectorstore')
        /\ (last'.op = "initialize" /\ ~IsSet(vectorstore)) =>
              /\ last'.raised = "ValueError: Please load notes first using load_notes()"
              /\ agent' = None
        /\ (last'.op = "chat" /\ ~IsSet(agent)) =>
              /\ last'.raised = "ValueError: Agent not initialized. Call initialize() first."
              /\ chat_history' = chat_history ]_vars

\* chat refused although notes are loaded, because initialize() was not called
C2_Witness ==
    /\ last.op = "chat"
    /\ last.raised = "ValueError: Agent not initialized. Call initialize() first."
    /\ IsSet(vectorstore)
    /\ ~IsSet(agent)


\* C3 as stated: load_notes builds the vector store, exactly once, and sets
\* reader and vectorstore if and only if the selected set of documents is not
\* empty; with no document selected it raises ValueError("No documents found in
\* vault") and leaves the vector store as it was.  (A call that finds no vault
\* directory selects nothing and is not covered.)
C3_AsStated ==
    [][ (last'.op = "load_notes" /\ last'.reads # <<>>) =>
          /\ last'.builds <= 1
          /\ (/\ last'.builds = 1
              /\ IsSet(reader') /\ reader' # reader
              /\ IsSet(vectorstore') /\ vectorstore' # vectorstore)
                <=> (last'.documents # {})
          /\ (last'.documents = {}) =>
                /\ last'.raised = "ValueError: No documents found in vault"
                /\ vectorstore' = vectorstore ]_vars

\* C3, amended: load_notes replaces reader by a new reader whenever the vault
\* directory exists, also when no document is selected.  It calls the builder of
\* the vector store exactly once if and only if the selected set is not empty, and
\* replaces vectorstore (by a store of the selected documents) if and only if that
\* build returns; when the build raises, the exception leaves load_notes and
\* vectorstore is as it was.  With no document selected it raises
\* ValueError("No documents found in vault") and leaves vectorstore as it was.
C3_LoadNotes ==
    [][ (last'.op = "load_notes" /\ last'.reads # <<>>) =>
          /\ IsSet(reader') /\ reader' # reader
          /\ last'.builds = (IF last'.documents # {} THEN 1 ELSE 0)
          /\ (vectorstore' # vectorstore) <=> (last'.documents # {} /\ last'.raised = "")
          /\ (vectorstore' # vectorstore) =>
                /\ IsSet(vectorstore')
                /\ Get(vectorstore').docs = last'.documents
          /\ (last'.documents = {}) =>
                /\ last'.raised = "ValueError: No documents found in vault"
                /\ vectorstore' = vectorstore ]_vars

\* a load_notes that selected nothing after an earlier one had built a store:
\* the reader is the new one, the store the old one
C3_Witness ==
    /\ last.op = "load_notes"
    /\ last.reads # <<>>
    /\ last.raised = "ValueError: No documents found in vault"
    /\ IsSet(vectorstore)
    /\ IsSet(reader)
    /\ Get(reader).id > Get(vectorstore).id

\* the user's message as the input of the invocation
C4_IsInput(arg, message) ==
    \/ arg = [input |-> message]
    \/ arg = [messages |-> <<[role |-> "user", content |-> message]>>]

\* the response carries an output text
C4_HasOutput(response) ==
    "output" \in DOMAIN response \/ response.messages # <<>>

\* the output text of a response
C4_OutputText(response) ==
    IF "output" \in DOMAIN response THEN response.output
    ELSE LET m == response.messages[Len(response.messages)] IN
         IF "content" \in DOMAIN m THEN m.content ELSE m.value

\* C4: chat(message) on an initialized agent invokes the agent exactly once with
\* the user's message as its input and returns exactly the output text the agent
\* produced, unmodified.
C4_ChatForwardsMessage ==
    (/\ last.op = "chat"
     /\ IsSet(last.outcome)
     /\ ~Get(last.outcome).raises
     /\ C4_HasOutput(Get(last.outcome).response)) =>
        /\ Len(last.invokes) = 1
        /\ C4_IsInput(last.invokes[1], last.message)
        /\ last.ret = C4_OutputText(Get(last.outcome).response)

C7_NewAgent ==
    (last.op = "__init__" /\ last.raised = "") =>
        /\ "config" \in attrs
        /\ reader = None
        /\ vectorstore = None
        /\ agent = None
        /\ chat_history = <<>>
        /\ IsSet(llm)
        /\ IsSet(embeddings)
        /\ "memory" \in attrs

\* C8: every skill of src/skills/ is among the tools the agent is created with by
\* initialize().
C8_SkillsExposed ==
    IsSet(agent) =>
        Skills \subseteq {Get(agent).tools[i].name : i \in DOMAIN Get(agent).tools}

\* C9: create_tools() returns exactly four tools, with the pairwise distinct
\* names search_notes, get_recent_entries, analyze_mood_patterns and find_goals,
\* each bound to the method of that name and with a description of more than 10
\* characters; a later call returns the same as an earlier one.
C9_CreateTools ==
    [][ (last'.op = "initialize" /\ last'.raised = "") =>
          LET t == last'.tools IN
          /\ Len(t) = 4
          /\ \A i, j \in 1..Len(t) : i # j => t[i].name # t[j].name
          /\ {t[i].name : i \in 1..Len(t)} =
                {"search_notes", "get_recent_entries", "analyze_mood_patterns", "find_goals"}
          /\ \A i \in 1..Len(t) :
                /\ t[i].func = "_" \o t[i].name
                /\ Len(t[i].description) > 10
          /\ Get(agent').tools = t
          /\ IsSet(agent) => Get(agent).tools = t ]_vars

\* initialize() has run again, after a second load_notes
C9_Witness ==
    /\ last.op = "initialize"
    /\ last.raised = ""
    /\ Len(last.tools) = 4
    /\ Get(Get(agent).agent_tools.vectorstore).id = 2

\* C10: each tool that searches issues exactly one similarity search per call:
\* search_notes with the caller's query, unchanged, and k the configured
\* search_results_limit; analyze_mood_patterns and find_goals with their fixed
\* keyword query and k = 10 and k = 8, whatever their input.
C10_ToolQueries ==
    /\ (last.op = "_search_notes") =>
          last.searches = <<[query |-> last.message, k |-> config.search_results_limit]>>
    /\ (last.op = "_analyze_mood_patterns") =>
          last.searches =
             <<[query |-> "mood emotion feeling mental state happiness sadness "
                          \o "anxiety stress joy depression calm peaceful",
                k |-> 10]>>
    /\ (last.op = "_find_goals") =>
          last.searches =
             <<[query |-> "goal objective want to plan to aspire achieve target "
                          \o "aim working on working towards",
                k |-> 8]>>

\* search_notes called with a query under a configured limit of 3
C10_Witness ==
    /\ last.op = "_search_notes"
    /\ last.message = "happy"
    /\ config.search_results_limit = 3
    /\ last.searches = <<[query |-> "happy", k |-> 3]>>

\* the four tool functions
C11_ToolOps == {"_search_notes", "_get_recent_entries", "_analyze_mood_patterns", "_find_goals"}

\* the 'Error ...' prefix and the 'no entries' message of each tool function
C11_Messages(call) ==
    IF call.op = "_search_notes"
    THEN [error |-> "Error searching notes: ",
          empty |-> "No relevant entries found for this query."]
    ELSE IF call.op = "_analyze_mood_patterns"
    THEN [error |-> "Error analyzing mood patterns: ",
          empty |-> "No mood-related entries found."]
    ELSE IF call.op = "_find_goals"
    THEN [error |-> "Error finding goals: ", empty |-> "No goals found in the notes."]
    ELSE [error |-> "Error retrieving recent entries: ",
          empty |-> "No entries found in the last "
                    \o (IF call.reads = <<>> THEN "7"
                        ELSE PyStrInt(Get(call.reads[1].days))) \o " days."]

\* C11: for any input value and any failure of the vector store or the reader,
\* each of the four tool functions returns a string and raises nothing: its own
\* 'Error ...' message when the store or the reader raised, its own fixed 'no
\* entries' message when the result was empty.
C11_ToolsNeverRaise ==
    (last.op \in C11_ToolOps) =>
        LET out == Get(last.outcome)
            msg == C11_Messages(last)
        IN /\ last.raised = ""
           /\ out.raises => last.ret = msg.error \o out.text
           /\ (/\ ~out.raises
               /\ IF last.op = "_get_recent_entries"
                  THEN last.documents = {} ELSE out.docs = <<>>)
                 => last.ret = msg.empty

\* what int() makes of each days string of DaysInputs: its integer value when it
\* parses as an integer, 7 otherwise
C12_Days ==
    [s \in {d.value : d \in {x \in DaysInputs : x.cls = "str"}} |->
        CASE s = "7" -> 7
          [] s = "4" -> 4
          [] s = " 90 " -> 90
          [] s = "-1" -> 0 - 1
          [] s = "+3" -> 3
          [] s = "0" -> 0
          [] s = "1_0" -> 10
          [] OTHER -> 7]

\* C12: get_recent_entries(days) calls read_recent_notes(n) exactly once, n being
\* the integer value of the days string when it parses as an integer and 7
\* otherwise.
C12_RecentEntriesDays ==
    (last.op = "_get_recent_entries" /\ last.cls = "str") =>
        last.reads = <<[fn |-> "read_recent_notes", days |-> Some(C12_Days[last.message])]>>

\* get_recent_entries called with a string that is no integer
C12_Witness ==
    /\ last.op = "_get_recent_entries"
    /\ last.message = "invalid"
    /\ last.reads = <<[fn |-> "read_recent_notes", days |-> Some(7)]>>
    /\ last.raised = ""

\* C13: read_recent_notes(days) returns exactly those documents of
\* read_all_notes() whose modification time is strictly later than now - days: a
\* read_recent_notes that follows a read_all_notes of the same files returns the
\* documents of that result that are less than days old, so a subset of it, and
\* of two successive read_recent_notes of the same files the one with the larger
\* days returns at least what the other returns.
C13_RecentNotes ==
    [][ /\ (/\ last.op = "read_all_notes"
            /\ last'.op = "read_recent_notes"
            /\ last'.files = last.files) =>
              /\ last'.documents = {d \in last.documents : d.age < Get(last'.days)}
              /\ last'.documents \subseteq last.documents
        /\ (/\ last.op = "read_recent_notes"
            /\ last'.op = "read_recent_notes"
            /\ last'.files = last.files
            /\ Get(last.days) <= Get(last'.days)) =>
              last.documents \subseteq last'.documents ]_vars

\* read_recent_notes(3) of a vault that holds a note modified exactly 3 days ago
\* and a note of today: only the latter is returned
C13_Witness ==
    /\ last.op = "read_recent_notes"
    /\ last.days = Some(3)
    /\ File("2024/nested.md") \in last.files
    /\ {d.metadata.file_name : d \in last.documents} = {"today.md"}

\* the files of the model that are markdown files, and the blank one among them
C14_MarkdownPaths == {"today.md", "old.md", "empty.md", "2024/nested.md", "locked.md"}

C14_BlankPaths == {"empty.md"}

\* C14: read_all_notes() returns exactly one document per readable .md file of
\* the vault tree (nested ones included) whose content is not blank, with that
\* content and the four metadata keys source, file_name, modified_time and
\* created_time; a blank file is never returned.
C14_ReadAllNotes ==
    (last.op = "read_all_notes") =>
        LET wanted == {f \in last.files : /\ f.path \in C14_MarkdownPaths
                                          /\ f.readable
                                          /\ f.path \notin C14_BlankPaths}
        IN /\ \A f \in wanted :
                Cardinality({d \in last.documents : d.metadata.source = f.path}) = 1
           /\ \A d \in last.documents :
                /\ \E f \in wanted : /\ d.metadata.source = f.path
                                     /\ d.page_content = f.content
                                     /\ d.metadata.modified_time = f.modified_time
                                     /\ d.metadata.created_time = f.created_time
                /\ DOMAIN d.metadata =
                      {"source", "file_name", "modified_time", "created_time"}
                /\ d.metadata.source \notin C14_BlankPaths

\* read_all_notes of a vault with a nested note, a blank note and a file that
\* is no note: the nested note is returned under the name of its last component
C14_Witness ==
    /\ last.op = "read_all_notes"
    /\ last.files = Notes \cup MoreFiles
    /\ \E d \in last.documents :
          d.metadata.source = "2024/nested.md" /\ d.metadata.file_name = "nested.md"
    /\ Cardinality(last.documents) = 3

\* C15: there are no partial-failure semantics: read_all_notes, read_recent_notes
\* and load_notes either complete over all of their input or report an error;
\* when the reading of a non-blank markdown file failed, the call does not return
\* as if nothing had happened.
C15_NoPartialFailure ==
    (/\ last.op \in {"read_all_notes", "read_recent_notes", "load_notes"}
     /\ \E f \in last.files : /\ f.path \in C14_MarkdownPaths
                              /\ f.path \notin C14_BlankPaths
                              /\ ~f.readable) =>
        last.raised # ""

\* the environment variable that overrides a field
C16_EnvVar ==
    [api_key |-> "OPENAI_API_KEY", vault_path |-> "OBSIDIAN_VAULT_PATH",
     model_type |-> "MODEL_TYPE", model_name |-> "MODEL_NAME"]

\* the section and the key of the YAML file that give a field
C16_YamlKey ==
    [model_type |-> <<"model", "type">>, model_name |-> <<"model", "name">>,
     api_key |-> <<"model", "api_key">>, base_url |-> <<"model", "base_url">>,
     temperature |-> <<"model", "temperature">>, max_tokens |-> <<"model", "max_tokens">>,
     vault_path |-> <<"vault", "path">>, load_days |-> <<"vault", "load_days">>,
     chunk_size |-> <<"vault", "chunk_size">>, chunk_overlap |-> <<"vault", "chunk_overlap">>,
     verbose |-> <<"agent", "verbose">>, max_iterations |-> <<"agent", "max_iterations">>,
     search_results_limit |-> <<"agent", "search_results_limit">>]

\* the value of a field by the precedence environment > YAML file > default
C16_Resolved(f, env, yaml) ==
    LET k == C16_YamlKey[f] IN
    IF f \in DOMAIN C16_EnvVar /\ env[C16_EnvVar[f]] \notin {None, Some("")}
    THEN IF f = "api_key" THEN env[C16_EnvVar[f]] ELSE Get(env[C16_EnvVar[f]])
    ELSE IF k[1] \in DOMAIN yaml /\ k[2] \in DOMAIN yaml[k[1]]
    THEN yaml[k[1]][k[2]]
    ELSE DefaultConfig[f]

\* C16: configuration values are resolved by the precedence environment variable
\* > YAML file > dataclass default: a field keeps its default unless the YAML
\* file gives a value for it, and an environment variable that is set and not
\* empty overrides both; YAML keys that are no fields of their section add
\* nothing, and a missing file leaves the defaults in place without an error.
C16_Precedence ==
    (last.op = "Config") =>
        /\ last.raised = ""
        /\ DOMAIN config = DOMAIN C16_YamlKey
        /\ \A f \in DOMAIN config : config[f] = C16_Resolved(f, last.env, last.yaml)

\* a Config constructed from a YAML file with unknown keys, with MODEL_TYPE set
\* and OPENAI_API_KEY set to the empty string: the type is the environment's, the
\* key and load_days the file's, the name the default
C16_Witness ==
    /\ last.op = "Config"
    /\ last.yaml = YamlOpenai
    /\ last.env.MODEL_TYPE = Some("ollama")
    /\ last.env.OPENAI_API_KEY = Some("")
    /\ last.env.MODEL_NAME = None
    /\ config.model_type = "ollama"
    /\ config.api_key = Some("sk-yaml")
    /\ config.load_days = None
    /\ config.model_name = "gpt-4"

\* the user-expanded absolute form of the vault paths of the model
C17_Expanded(path) ==
    CASE path = "~/vault" -> "/home/user/vault"
      [] path = "journal" -> "/work/journal"
      [] OTHER -> path

C17_HasTilde(path) == \E i \in 1..Len(path) : SubSeq(path, i, i) = "~"

\* the three checks of validate, in order, on the configuration it was called with
C17_Checks ==
    LET path == last.message IN
    IF path = "" THEN last.raised = "ValueError: Vault path not configured"
    ELSE IF C17_Expanded(path) \notin last.existing
    THEN last.raised = "ValueError: Vault path does not exist: " \o C17_Expanded(path)
    ELSE IF config.model_type = "openai" /\ config.api_key \in {None, Some("")}
    THEN last.raised = "ValueError: OpenAI API key required for openai model type"
    ELSE last.raised = "" /\ last.ret = "True"

C18_ExitInputs == {"/exit", "/QUIT now", " /q "}

\* C18: the chat loop ends only when the user enters /exit, /quit or /q as the
\* first word, in any case; every other input, an unknown command, a
\* KeyboardInterrupt and an exception raised in a turn leave the loop running,
\* ready to read the next input.
C18_ReplEndsOnlyOnExit ==
    [][cli.pc = "repl" =>
          IF cli'.event = "line" /\ cli'.input \in C18_ExitInputs
          THEN cli'.pc = "done"
          ELSE cli'.pc = "repl"]_vars

\* the inputs that C19 says ask the agent nothing and leave the history alone
C19_QuietInputs ==
    {"", "  ", "/help", "/stats", "/clear", "/memory", "/exits", "/[/b]", "/recent abc"}

\* this turn called agent.chat once, with text, and the history grew by it
C19_ChatOnce(text) ==
    /\ last'.op = "chat"
    /\ last'.message = text
    /\ Len(last'.invokes) = 1
    /\ Len(chat_history') > Len(chat_history)
    /\ SubSeq(chat_history', 1, Len(chat_history)) = chat_history
    /\ chat_history'[Len(chat_history) + 1] = [role |-> "user", content |-> text]

\* C19: in the chat loop, empty input, /help, /stats, /clear, /memory, /reset and
\* unknown commands never call agent.chat and never add to the conversation
\* history, and of these only /reset changes it, by clearing it; /recent [N]
\* calls agent.chat exactly once with a request for the journal entries of the
\* last N days, N being 7 when it is not given; /recent with an argument that is
\* no integer calls nothing.
C19_ReplCommands ==
    [][(cli.pc = "repl" /\ cli'.event = "line") =>
          CASE cli'.input \in C19_QuietInputs ->
                  /\ last'.op # "chat"
                  /\ last'.invokes = <<>>
                  /\ chat_history' = chat_history
            [] cli'.input = "/reset" ->
                  /\ last'.op = "clear_memory"
                  /\ last'.invokes = <<>>
                  /\ chat_history' = <<>>
            [] cli'.input = "/recent" ->
                  C19_ChatOnce("Show me my journal entries from the last 7 days")
            [] cli'.input = "/Recent 3" ->
                  C19_ChatOnce("Show me my journal entries from the last 3 days")
            [] OTHER -> TRUE]_vars

\* /recent was entered, the agent was asked for the entries of the last 7 days
\* and its answer is in the history
C19_Witness ==
    /\ cli.pc = "repl"
    /\ cli.input = "/recent"
    /\ last.op = "chat"
    /\ last.raised = ""
    /\ last.message = "Show me my journal entries from the last 7 days"
    /\ Len(chat_history) = 2
    /\ chat_history[2].role = "assistant"

\* the statements of the start-up of a command, in the order of the code
C20_Pipeline(command) ==
    IF command = "chat"
    THEN <<"config", "verbose", "validate", "construct", "load_notes", "initialize">>
    ELSE <<"config", "validate", "construct", "load_notes", "initialize">>

\* the call each of them makes
C20_Call ==
    [config |-> "Config", validate |-> "validate", construct |-> "__init__",
     load_notes |-> "load_notes", initialize |-> "initialize"]

\* C20: chat and ask run a strictly linear start-up: configuration loading,
\* Config.validate, agent construction, load_notes and initialize, in that order,
\* each only after the one before it succeeded; agent.chat is not called before
\* all of them succeeded, and a failure of any of them ends the process with
\* exit status 1 without any chat call.
C20_LinearStartup ==
    [][/\ cli.pc # "done"
       /\ (last'.op = "chat") =>
             /\ cli.pc \in {"repl", "ask"}
             /\ attrs # {} /\ IsSet(reader) /\ IsSet(vectorstore) /\ IsSet(agent)
       /\ cli.pc \notin {"repl", "ask"} =>
             \E i \in 1..Len(C20_Pipeline(cli.command)) : cli.pc = C20_Pipeline(cli.command)[i]
       /\ \A i \in 1..Len(C20_Pipeline(cli.command)) :
             cli.pc = C20_Pipeline(cli.command)[i] =>
                /\ chat_history' = <<>>
                /\ (cli.pc # "verbose") => last'.op = C20_Call[cli.pc]
                /\ IF last'.raised # ""
                   THEN cli'.pc = "done" /\ cli'.exit_status = Some(1)
                   ELSE /\ cli'.exit_status = None
                        /\ cli'.pc = IF i < Len(C20_Pipeline(cli.command))
                                     THEN C20_Pipeline(cli.command)[i + 1]
                                     ELSE IF cli.command = "chat" THEN "repl"
                                     ELSE "ask"]_vars

\* ask has run the whole start-up, asked the agent once, and ended with status 0
C20_Witness ==
    /\ cli.command = "ask"
    /\ cli.pc = "done"
    /\ cli.exit_status = Some(0)
    /\ last.op = "chat"
    /\ last.message = "Hello"
    /\ IsSet(agent)

(***************************************************************************)
(* Further claims on the configuration (SpecConfig).                       *)
(***************************************************************************)
\* two Configs were constructed one after the other from the same YAML data, in
\* environments that agree on the variables names
C21_SameInputs(names) ==
    /\ last.op = "Config"
    /\ last'.op = "Config"
    /\ last'.yaml = last.yaml
    /\ \A v \in names : last'.env[v] = last.env[v]

\* C21: exactly two environment variables, the API credential and the vault
\* path, influence the loaded configuration: two environments that agree on
\* them and on the YAML file yield the same Config, whatever their other
\* variables are.
C21_AsStated ==
    [][C21_SameInputs({"OPENAI_API_KEY", "OBSIDIAN_VAULT_PATH"})
          => config' = config]_vars

\* C21, amended: exactly four environment variables, OPENAI_API_KEY,
\* OBSIDIAN_VAULT_PATH, MODEL_TYPE and MODEL_NAME, influence the loaded
\* configuration: two environments that agree on them and on the YAML file yield
\* the same Config, whatever their other variables are.
C21_FourVariables ==
    [][C21_SameInputs({"OPENAI_API_KEY", "OBSIDIAN_VAULT_PATH", "MODEL_TYPE",
                       "MODEL_NAME"})
          => config' = config]_vars

\* a Config constructed in an environment with OLLAMA_BASE_URL set, right after
\* one from the same file without it: the base URL is the file's default
C21_Witness ==
    /\ last.op = "Config"
    /\ last.yaml = YamlOllama
    /\ last.env.OLLAMA_BASE_URL = Some("http://gpu:11434")
    /\ last.env.MODEL_TYPE = Some("ollama")
    /\ config.base_url = DefaultConfig.base_url

(***************************************************************************)
(* Further claims on the conversation (SpecConversation).                  *)
(***************************************************************************)
\* C22: after any sequence of chat and clear_memory calls, chat calls whose
\* agent invocation fails included, chat_history alternates user, assistant,
\* user, assistant, ..., starting with a user entry: every stored user message
\* but the one being processed is followed by its assistant reply.
C22_Alternates ==
    \A i \in 1..Len(chat_history) :
        chat_history[i].role = IF i % 2 = 1 THEN "user" ELSE "assistant"

\* the chat call of this step handed messages to agent.invoke
C23_Invoked == last'.op = "chat" /\ Len(last'.invokes) = 1

\* C23: on every chat call the messages passed to the agent are the last
\* min(10, n) entries of chat_history as it is after the new user message was
\* appended, n being its length then, in stored order and with the new user
\* message last; chat never truncates the stored chat_history.
C23_LastTenMessages ==
    [][C23_Invoked =>
          LET n == Len(chat_history) + 1
              k == IF n < 10 THEN n ELSE 10
              messages == last'.invokes[1].messages
          IN /\ Len(messages) = k
             /\ messages[k] = [role |-> "user", content |-> last'.message]
             /\ \A i \in 1..(k - 1) : messages[i] = chat_history[n - k + i]
             /\ Len(chat_history') >= n
             /\ SubSeq(chat_history', 1, n - 1) = chat_history
             /\ chat_history'[n] = messages[k]]_vars

\* a chat call on a history of more than ten entries: ten messages were handed
\* over and the history holds them all
C23_Witness ==
    /\ last.op = "chat"
    /\ Len(last.invokes) = 1
    /\ Len(last.invokes[1].messages) = 10
    /\ Len(chat_history) = 12

\* C24: a chat call whose agent invocation succeeds appends exactly two entries
\* to chat_history, the user message and then the assistant response, and the
\* string it returns is the content of the last entry; no operation other than
\* clear_memory removes or alters an entry.
C24_ChatAppendsTwo ==
    [][/\ (C23_Invoked /\ ~Get(last'.outcome).raises) =>
             /\ Len(chat_history') = Len(chat_history) + 2
             /\ chat_history'[Len(chat_history) + 1]
                   = [role |-> "user", content |-> last'.message]
             /\ chat_history'[Len(chat_history) + 2].role = "assistant"
             /\ chat_history'[Len(chat_history) + 2].content = last'.ret
       /\ (last'.op # "clear_memory") =>
             /\ Len(chat_history') >= Len(chat_history)
             /\ SubSeq(chat_history', 1, Len(chat_history)) = chat_history]_vars

\* a chat call that succeeded on a history that already held a conversation
C24_Witness ==
    /\ last.op = "chat"
    /\ IsSet(last.outcome)
    /\ ~Get(last.outcome).raises
    /\ Len(chat_history) = 4
    /\ chat_history[4].content = last.ret

(***************************************************************************)
(* Further claims on the agent's life cycle (Spec).                        *)
(***************************************************************************)
\* C25: after any sequence of load_notes and initialize calls the tools held by
\* the agent search the agent's current vectorstore and read through its
\* current reader, so that a successful load_notes after initialize shows in the
\* retrieval results of the chat calls that follow.
C25_ToolsUseCurrentStore ==
    IsSet(agent) =>
        /\ Get(agent).agent_tools.vectorstore = vectorstore
        /\ Get(agent).agent_tools.reader = reader

\* C27: in load_notes a given days argument takes precedence over
\* config.vault.load_days: with days = d the notes of the last d days are read,
\* for every integer d; with days omitted the notes of the last
\* config.vault.load_days days are read; all notes are read only when both are
\* unset.
C27_DaysTakePrecedence ==
    (last.op = "load_notes" /\ last.reads # <<>>) =>
        /\ IsSet(last.days) =>
              last.reads = <<[fn |-> "read_recent_notes", days |-> last.days]>>
        /\ (last.days = None /\ IsSet(config.load_days)) =>
              last.reads = <<[fn |-> "read_recent_notes", days |-> config.load_days]>>
        /\ last.reads[1].fn = "read_all_notes" =>
              (last.days = None /\ config.load_days = None)

(***************************************************************************)
(* Further claims on the commands (SpecCliEndOfInput, SpecCli).            *)
(***************************************************************************)
\* C26: if reading the user's input fails for good (end of input: every further
\* prompt raises EOFError), the chat loop eventually terminates instead of
\* looping forever on the failing read.
C26_EndOfInputTerminates == (cli.pc = "repl") ~> (cli.pc = "done")

\* C28: every configuration accepted by Config.validate() can be used to
\* construct a SableyeAgent: in the commands, where the agent is constructed only
\* after validate() returned True, the construction does not fail with
\* "Unsupported model type".
C28_ValidatedConfigConstructs ==
    (cli.command # "" /\ last.op = "__init__") =>
        last.raised # "ValueError: Unsupported model type: " \o config.model_type

(***************************************************************************)
(* Further claims on the tools (SpecJournal).                              *)
(***************************************************************************)
\* the header of a document's entry
C30_Header(doc) ==
    "--- " \o doc.metadata.file_name \o " (Modified: "
        \o SubSeq(doc.metadata.modified_time, 1, 10) \o ") ---\n"

\* what an entry shows of a note
C30_Shown(content) ==
    IF Len(content) > 500 THEN SubSeq(content, 1, 500) \o "..." ELSE content

\* the document the i-th entry of the output is about
C30_Doc(i) ==
    CHOOSE d \in last.documents :
        SubSeq(last.pieces[i], 1, Len(C30_Header(d))) = C30_Header(d)

\* C30: the output of get_recent_entries contains at most 10 entries, namely the
\* documents with the latest modification times among those returned by the
\* reader, listed newest first, and each entry shows at most the first 500
\* characters of its note with "..." appended exactly when the note is longer
\* than 500 characters.
C30_TenLatestEntries ==
    (last.op = "_get_recent_entries" /\ last.pieces # <<>>) =>
        LET n == Len(last.pieces)
            shown == {C30_Doc(i) : i \in 1..n}
            hidden == last.documents \ shown
        IN /\ last.ret = Join(last.pieces, "\n")
           /\ last.documents = read_recent_notes(last.files, Get(last.reads[1].days))
           /\ n = Min(10, Cardinality(last.documents))
           /\ Cardinality(shown) = n
           /\ \A i \in 1..n :
                 last.pieces[i] = C30_Header(C30_Doc(i))
                                     \o C30_Shown(C30_Doc(i).page_content) \o "\n"
           /\ \A i, j \in 1..n :
                 i < j => ~StrLess(C30_Doc(i).metadata.modified_time,
                                   C30_Doc(j).metadata.modified_time)
           /\ \A s \in shown, h \in hidden :
                 /\ ~StrLess(s.metadata.modified_time, h.metadata.modified_time)
                 /\ s.age <= h.age

\* eleven notes of the journal are recent, ten are shown, the newest of them cut
\* after 500 characters and one of exactly 500 characters shown whole
C30_Witness ==
    /\ last.op = "_get_recent_entries"
    /\ Cardinality(last.documents) = 11
    /\ Len(last.pieces) = 10
    /\ Len(C30_Doc(1).page_content) = 504
    /\ Len(last.pieces[1]) = Len(C30_Header(C30_Doc(1))) + 504
    /\ Len(C30_Doc(2).page_content) = 500
    /\ Len(last.pieces[2]) = Len(C30_Header(C30_Doc(2))) + 501

(***************************************************************************)
(* Claims on the skills (SpecSkills).                                      *)
(***************************************************************************)
C29_Skills == {"ask_past_self", "track_progress", "energy_tracker"}

\* the error string of a skill for an exception text
C29_ErrorString(op, text) ==
    (IF op = "ask_past_self" THEN "Error querying past notes: "
     ELSE IF op = "track_progress" THEN "Error tracking progress: "
     ELSE "Error tracking energy: ") \o text

\* the usage message of a skill
C29_Usage(op) ==
    IF op = "ask_past_self"
    THEN "Please provide a question to search for in your past notes."
    ELSE "Please specify a goal or habit to track "
         \o "(e.g., 'learning Rust', 'daily exercise')."

\* the parts of the claim on retrieval, prompt loading and the language model,
\* on the single invocation and on the empty input
C29_Boundary ==
    /\ last.raised = ""
    /\ (last.searches # <<>> /\ Get(last.outcome).search.raises) =>
          last.ret = C29_ErrorString(last.op, Get(last.outcome).search.text)
    /\ (last.reads # <<>> /\ Get(last.outcome).read.raises) =>
          last.ret = C29_ErrorString(last.op, Get(last.outcome).read.text)
    /\ (last.prompt_files # <<>> /\ last.prompt_files[1].exists
           /\ ~last.prompt_files[1].readable) =>
          last.ret = C29_ErrorString(last.op, last.prompt_files[1].text)
    /\ (last.invokes # <<>> /\ Get(last.outcome).llm.raises) =>
          last.ret = C29_ErrorString(last.op, Get(last.outcome).llm.text)
    /\ (last.op = "energy_tracker" /\ last.cls # "str") =>
          last.ret = C29_ErrorString(last.op,
                        "int() argument must be a string, a bytes-like object or a "
                        \o "real number, not '" \o last.cls \o "'")
    /\ Len(last.invokes) <= 1
    /\ last.invokes # <<>> => last.documents # {}
    /\ (last.op # "energy_tracker" /\ last.cls = "str" /\ last.message = "") =>
          /\ last.ret = C29_Usage(last.op)
          /\ last.searches = <<>>
          /\ last.invokes = <<>>

\* an energy_tracker call whose input int() rejects with ValueError
C29_ValueError ==
    last.op = "energy_tracker" /\ last.cls = "str" /\ ~PyInt(last.message).ok

====
